---------------------------- MODULE Spec2Model ----------------------------
(***************************************************************************)
(* NexTraction: the ingestion pipeline (crawler, text segmenter, similarity *)
(* index, ingestion orchestrator) and the answer generator as state         *)
(* machines.                                                                *)
(*                                                                          *)
(*   SpecUrl     WebCrawler._normalize_url on URL strings                   *)
(*   SpecCrawl   one WebCrawler instance running crawl()                    *)
(*   SpecCrawlPaths  the same on URLs whose paths have parameters           *)
(*   SpecRecrawl one WebCrawler instance running crawl() again and again;   *)
(*               SpecRecrawlFair adds the event loop's scheduling           *)
(*   SpecFetch   one WebCrawler instance running fetch_page() calls         *)
(*   SpecIndex   one VectorStore driven through its public methods          *)
(*   SpecPersist one VectorStore directory through save, crash and load     *)
(*   SpecServe   the VectorStore singleton written by ingestion, read by    *)
(*               /ask                                                       *)
(*   SpecChunk   ContentProcessor.chunk_text and process_page               *)
(*   SpecAnswer  AnswerGenerator.generate_answer                            *)
(*   Spec       IngestionService: jobs created by start_ingestion and run   *)
(*              by _process_ingestion as background tasks on one event loop *)
(***************************************************************************)
EXTENDS Integers, Sequences, FiniteSets, TLC

VARIABLES
    crawler,        \* per crawler instance: the WebCrawler object and its crawl() frame
    jobs,           \* db.ingest_jobs: job id -> job document
    web_pages,      \* db.web_pages: set of page documents
    content_chunks, \* db.content_chunks: set of chunk _ids
    callerPc,       \* per job: position of the start_ingestion call
    task,           \* per job: the _process_ingestion background task frame
    vs,             \* the VectorStore singleton: index, metadata, id_to_index
    disk,           \* the persisted index.faiss / metadata.pkl pair
    lastSearch,     \* the last VectorStore.search call: arguments and result
    persist,        \* the save() frame, the last load() and a second VectorStore
    proc,           \* the last ContentProcessor call: arguments and result
    gen,            \* the last AnswerGenerator.generate_answer call
    norm,           \* the last WebCrawler._normalize_url call on a URL string
    fetch           \* a WebCrawler and the frame of its running fetch_page call

vars == <<crawler, jobs, web_pages, content_chunks, callerPc, task, vs, disk, lastSearch, persist, proc, gen, norm, fetch>>

-----------------------------------------------------------------------------
(* Bounds *)

MaxSeeds == 2
MaxLinks == 1
MaxPagesBound == 2
MaxDepthBound == 1
MaxBatch == 1
MaxIndexSize == 3
MaxTopK == 2
MaxPersistRows == 2
MaxWords == 5
MaxChunkSize == 3
MaxRetrieved == 2
MaxMarkers == 2
MaxTail == 3
MaxRetriesBound == 3

\* the ids of the ingestion jobs (uuid4 strings in the code); a crawler
\* instance is named by the job that owns it
Jobs == {"job1", "job2"}

-----------------------------------------------------------------------------
(* Small helpers *)

Min(a, b) == IF a <= b THEN a ELSE b

Range(s) == { s[i] : i \in 1..Len(s) }

SeqsUpTo(S, n) == UNION { [1..k -> S] : k \in 0..n }

-----------------------------------------------------------------------------
(* URLs.  A URL is scheme://[userinfo@]host followed by its tail: the path,  *)
(* parameters, query and fragment, as a sequence of characters.  Hosts are  *)
(* sequences of letters so that the allowlist's substring test can be       *)
(* computed.                                                                *)

HostX == <<1, 2>>          \* "x.com"
HostEvilX == <<3, 1, 2>>   \* "evil-x.com"
HostOther == <<4>>         \* "other.org"
Hosts == {HostX, HostEvilX, HostOther}

\* scheme://host<tail>
Url(h, tail) == [userinfo |-> <<>>, host |-> h, tail |-> tail]

\* scheme://userinfo@host<tail>
UrlAs(usr, h, tail) == [Url(h, tail) EXCEPT !.userinfo = usr]

\* urlparse(url).netloc: the host, preceded by "userinfo@" if there is one
\* (0 stands for "@", which no host contains)
netloc(u) == IF u.userinfo = <<>> THEN u.host ELSE u.userinfo \o <<0>> \o u.host

\* a in b  (Python substring test on strings)
IsSubstring(a, b) ==
    \E i \in 0..(Len(b) - Len(a)) : \A k \in 1..Len(a) : b[i + k] = a[k]

\* str.find(c, start) and str.rfind(c), 1-based, 0 when c does not occur
Find(s, c, start) ==
    IF \E i \in start..Len(s) : s[i] = c
       THEN CHOOSE i \in start..Len(s) : s[i] = c /\ \A k \in start..(i - 1) : s[k] # c
       ELSE 0

RFind(s, c) ==
    IF \E i \in 1..Len(s) : s[i] = c
       THEN CHOOSE i \in 1..Len(s) : s[i] = c /\ \A k \in (i + 1)..Len(s) : s[k] # c
       ELSE 0

\* s.split(c, 1): the parts before and after the first c
SplitFirst(s, c) ==
    LET i == Find(s, c, 1)
    IN  IF i = 0 THEN <<s, <<>>>>
        ELSE <<SubSeq(s, 1, i - 1), SubSeq(s, i + 1, Len(s))>>

\* urllib.parse._splitparams: the parameters of the last path segment
_splitparams(url) ==
    LET i == IF RFind(url, "/") # 0 THEN Find(url, ";", RFind(url, "/"))
             ELSE Find(url, ";", 1)
    IN  IF i = 0 THEN <<url, <<>>>>
        ELSE <<SubSeq(url, 1, i - 1), SubSeq(url, i + 1, Len(url))>>

\* urlparse(url) on the part of the string after scheme://netloc: the
\* fragment is split off first, then the query, then the parameters
urlparse(tail) ==
    LET f == SplitFirst(tail, "#")
        q == SplitFirst(f[1], "?")
        p == _splitparams(q[1])
    IN  [path |-> p[1], params |-> p[2], query |-> q[2], fragment |-> f[2]]

\* s.rstrip(c)
rstrip(s, c) ==
    LET keep == { k \in 1..Len(s) : s[k] # c }
    IN  IF keep = {} THEN <<>>
        ELSE SubSeq(s, 1, CHOOSE k \in keep : \A m \in keep : m <= k)

\* WebCrawler._normalize_url on the tail of a URL string (lines 44-49)
_normalize_url_string(tail) ==
    LET parsed == urlparse(tail)
        normalized == rstrip(parsed.path, "/")
    IN  IF parsed.query # <<>> THEN normalized \o <<"?">> \o parsed.query
        ELSE normalized

\* WebCrawler._normalize_url: scheme and netloc kept, the tail rebuilt from
\* the parsed path and query
_normalize_url(u) == [u EXCEPT !.tail = _normalize_url_string(u.tail)]

\* WebCrawler._is_allowed_domain; an absent or empty allowlist allows all
_is_allowed_domain(allow, u) ==
    IF allow = {} THEN TRUE
    ELSE LET domain == netloc(u)
         IN  \E allowed \in allow : IsSubstring(allowed, domain)

-----------------------------------------------------------------------------
(* Pages.  An HTTP body is its text (a key of the text table used by the    *)
(* segmenter) and the hrefs of its anchors.                                 *)

Html(b, hrefs) == [body |-> b, hrefs |-> hrefs]

\* hashlib.md5(html_content.encode()).hexdigest(): a function of the whole body
ContentHash(html) == <<html.body, Len(html.hrefs), html.hrefs>>

RECURSIVE ExtractLinks(_, _)
\* fetch_page's link loop: normalise every href, keep the allowed ones, in order
ExtractLinks(allow, hrefs) ==
    IF hrefs = <<>> THEN <<>>
    ELSE LET n == _normalize_url(Head(hrefs))
         IN  (IF _is_allowed_domain(allow, n) THEN <<n>> ELSE <<>>)
                \o ExtractLinks(allow, Tail(hrefs))

\* What the network gives for one fetch_page call:
\*   "ok"      a 200 text/html response with the given body
\*   "nonhtml" a 200 response of another content type (returns None at once)
\*   "failed"  every attempt timed out / errored / was non-200
FetchOk(html) == [kind |-> "ok", html |-> html]
FetchNonHtml == [kind |-> "nonhtml", html |-> Html(0, <<>>)]
FetchFailed == [kind |-> "failed", html |-> Html(0, <<>>)]

\* the dict fetch_page returns on success
PageData(allow, url, html) ==
    [url |-> url,
     html_content |-> html,
     links |-> ExtractLinks(allow, html.hrefs),
     content_hash |-> ContentHash(html)]

-----------------------------------------------------------------------------
(* WebCrawler.  One record holds the object's fields (domain_allowlist,     *)
(* max_pages, max_depth, visited_urls, failed_urls) and the frame of its    *)
(* crawl() call (results, queue, seen_hashes, the position pc and the       *)
(* (normalized_url, depth) being fetched).  fetched and resDepth are        *)
(* history: every fetch_page call made (its argument, the depth and the     *)
(* queue entry it was made for), and the depth of every result.             *)

NoUrl == Url(<<>>, <<>>)

NewCrawler(allow, mp, md) ==
    [domain_allowlist |-> allow, max_pages |-> mp, max_depth |-> md,
     visited_urls |-> {}, failed_urls |-> {},
     results |-> <<>>, queue |-> <<>>, seen_hashes |-> {},
     pc |-> "idle", url |-> NoUrl, depth |-> 0, has_cb |-> FALSE,
     fetched |-> <<>>, resDepth |-> <<>>, duplicates |-> 0]

\* crawl(): lines 120-122, the frame's initial locals
CrawlEnter(cr, seed_urls, has_cb) ==
    [cr EXCEPT !.results = <<>>,
               !.queue = [i \in 1..Len(seed_urls) |-> <<seed_urls[i], 0>>],
               !.seen_hashes = {},
               !.pc = "loop", !.has_cb = has_cb,
               !.fetched = <<>>, !.resDepth = <<>>, !.duplicates = 0]

\* a while test that lets one more page in
CrawlLoopTestLe(cr) == cr.queue # <<>> /\ Len(cr.results) <= cr.max_pages

\* the while test (line 124)
CrawlLoopTest(cr) == cr.queue # <<>> /\ Len(cr.results) < cr.max_pages

\* a skip test that forgets the depth limit
SkipVisitedOnly(cr, normalized_url, depth) == normalized_url \in cr.visited_urls

\* the skip test of line 129
SkipVisitedOrDeep(cr, normalized_url, depth) ==
    normalized_url \in cr.visited_urls \/ depth > cr.max_depth

\* a duplicate test keyed by URL and hash instead of by hash alone
IsDuplicateSameUrl(cr, page_data) ==
    \E i \in 1..Len(cr.results) :
        /\ cr.results[i].url = page_data.url
        /\ cr.results[i].content_hash = page_data.content_hash

\* the duplicate test of line 144
IsDuplicate(cr, page_data) == page_data.content_hash \in cr.seen_hashes

\* a loop head that reads the first queue entry and removes it only when the
\* URL is fetched
CrawlDequeueKeepsSkipped(cr) ==
    IF ~CrawlLoopTest(cr) THEN [cr EXCEPT !.pc = "returned"]
    ELSE LET url == Head(cr.queue)[1]
             depth == Head(cr.queue)[2]
             normalized_url == _normalize_url(url)
             popped == [cr EXCEPT !.queue = Tail(cr.queue)]
         IN  IF SkipVisitedOrDeep(cr, normalized_url, depth)
                THEN cr
             ELSE IF ~_is_allowed_domain(cr.domain_allowlist, normalized_url)
                THEN cr
             ELSE [popped EXCEPT !.visited_urls = @ \cup {normalized_url},
                                 !.pc = "fetch",
                                 !.url = normalized_url, !.depth = depth,
                                 !.fetched = Append(@, <<normalized_url, depth, url>>)]

\* lines 124-140: the while test, the pop, the skip tests, up to the fetch call
CrawlDequeue(cr) ==
    IF ~CrawlLoopTest(cr) THEN [cr EXCEPT !.pc = "returned"]
    ELSE LET url == Head(cr.queue)[1]
             depth == Head(cr.queue)[2]
             normalized_url == _normalize_url(url)
             popped == [cr EXCEPT !.queue = Tail(cr.queue)]
         IN  IF SkipVisitedOrDeep(cr, normalized_url, depth)
                THEN popped
             ELSE IF ~_is_allowed_domain(cr.domain_allowlist, normalized_url)
                THEN popped
             ELSE [popped EXCEPT !.visited_urls = @ \cup {normalized_url},
                                 !.pc = "fetch",
                                 !.url = normalized_url, !.depth = depth,
                                 !.fetched = Append(@, <<normalized_url, depth, url>>)]

\* an enqueue that puts the links of a page in front of the frontier
EnqueueLinksInFront(queue, links, visited, depth) ==
    LET new == SelectSeq(links, LAMBDA l : l \notin visited)
    IN  [i \in 1..Len(new) |-> <<new[i], depth + 1>>] \o queue

RECURSIVE EnqueueLinks(_, _, _, _)
\* lines 153-155
EnqueueLinks(queue, links, visited, depth) ==
    IF links = <<>> THEN queue
    ELSE EnqueueLinks(IF Head(links) \notin visited
                         THEN Append(queue, <<Head(links), depth + 1>>)
                         ELSE queue,
                      Tail(links), visited, depth)

\* a None from fetch_page that ends the crawl call with an exception
AfterFetchNoneRaises(cr) == [cr EXCEPT !.pc = "raised"]

\* fetch_page returned None: `if page_data:` is not taken, the loop goes on
\* (lines 142, 162, 124)
AfterFetchNone(cr) == [cr EXCEPT !.pc = "loop"]

\* lines 140-156 with fetch_page's return (lines 66-97, 111-112)
CrawlFetched(cr, outcome) ==
    IF outcome.kind = "failed"
        THEN AfterFetchNone([cr EXCEPT !.failed_urls = @ \cup {cr.url}])
    ELSE IF outcome.kind = "nonhtml"
        THEN AfterFetchNone(cr)
    ELSE LET page_data == PageData(cr.domain_allowlist, cr.url, outcome.html)
         IN  IF IsDuplicate(cr, page_data)
                THEN [cr EXCEPT !.duplicates = @ + 1, !.pc = "loop"]
             ELSE LET results == Append(cr.results, page_data)
                      queue == IF cr.depth < cr.max_depth /\ Len(results) < cr.max_pages
                                  THEN EnqueueLinks(cr.queue, page_data.links,
                                                    cr.visited_urls, cr.depth)
                                  ELSE cr.queue
                  IN  [cr EXCEPT !.seen_hashes = @ \cup {page_data.content_hash},
                                 !.results = results,
                                 !.queue = queue,
                                 !.resDepth = Append(@, cr.depth),
                                 !.pc = IF cr.has_cb THEN "callback" ELSE "loop"]

\* callback arguments whose estimate is not capped at max_pages
CallbackArgsUncapped(cr) == <<Len(cr.results), Len(cr.queue) + Len(cr.results)>>

\* the arguments of progress_callback (line 159)
CallbackArgs(cr) ==
    <<Len(cr.results), Min(Len(cr.queue) + Len(cr.results), cr.max_pages)>>

-----------------------------------------------------------------------------
(* Embedding vectors.  A vector is a direction (a multiple of 45 degrees)   *)
(* and a length; length 0 is the zero vector the embedding service returns  *)
(* when the provider fails.  Inner products are kept times 100.             *)

Vec(d, m) == [dir |-> d, mag |-> m]
ZeroVec == Vec(0, 0)

\* 100 * cos(45 * d degrees), rounded
Cos100(d) ==
    LET t == d % 8
    IN  IF t = 0 THEN 100
        ELSE IF t \in {1, 7} THEN 71
        ELSE IF t \in {2, 6} THEN 0
        ELSE IF t \in {3, 5} THEN -71
        ELSE -100

\* faiss.normalize_L2 on one row: unit length, the zero vector left as it is
normalize_L2(v) == IF v.mag = 0 THEN ZeroVec ELSE Vec(v.dir, 1)

NormalizeRows(vecs) == [i \in 1..Len(vecs) |-> normalize_L2(vecs[i])]

\* the inner product IndexFlatIP scores with
InnerProduct(a, b) == a.mag * b.mag * Cos100(a.dir - b.dir + 8)

\* the score faiss reports for a slot it could not fill (label -1)
NoScore == -Cos100(0) - 1

RECURSIVE FaissTopK(_, _, _, _)
\* faiss IndexFlatIP.search for one query: k (label, score) pairs, best score
\* first, labels 0-based, ties by label; slots past ntotal hold label -1
FaissTopK(index, q, k, taken) ==
    IF k = 0 THEN <<>>
    ELSE LET rest == (1..Len(index)) \ taken
         IN  IF rest = {} THEN <<[label |-> -1, score |-> NoScore]>>
                                   \o FaissTopK(index, q, k - 1, taken)
             ELSE LET best == CHOOSE i \in rest : \A j \in rest :
                                \/ InnerProduct(index[i], q) > InnerProduct(index[j], q)
                                \/ /\ InnerProduct(index[i], q) = InnerProduct(index[j], q)
                                   /\ i <= j
                  IN  <<[label |-> best - 1, score |-> InnerProduct(index[best], q)]>>
                         \o FaissTopK(index, q, k - 1, taken \cup {best})

-----------------------------------------------------------------------------
(* Chunks.  A chunk id is sha256(url + "_" + chunk_index), kept as the pair *)
(* it is computed from.                                                     *)

\* ContentProcessor._generate_chunk_id
_generate_chunk_id(url, chunk_index) == <<url, chunk_index>>

\* the dict chunk_text appends for one chunk
Chunk(url, chunk_index, content, word_count) ==
    [id |-> _generate_chunk_id(url, chunk_index), url |-> url,
     content |-> content, chunk_index |-> chunk_index, word_count |-> word_count]

-----------------------------------------------------------------------------
(* ContentProcessor.  A cleaned text is the list of its sentences as        *)
(* _split_into_sentences returns them; a sentence is the run of tokens      *)
(* word<first> .. word<first + words - 1> and the length of its string.     *)

Sentence(first, words, chars) == [first |-> first, words |-> words, chars |-> chars]

RECURSIVE SumWords(_)
\* len(text.split()) of the sentences joined
SumWords(sentences) ==
    IF sentences = <<>> THEN 0 ELSE Head(sentences).words + SumWords(Tail(sentences))

RECURSIVE SumChars(_)
SumChars(sentences) ==
    IF sentences = <<>> THEN 0 ELSE Head(sentences).chars + SumChars(Tail(sentences))

\* len(" ".join(current_chunk))
JoinedLength(current_chunk) ==
    IF current_chunk = <<>> THEN 0
    ELSE SumChars(current_chunk) + Len(current_chunk) - 1

ProcessorConfig(cs, co, ml) ==
    [chunk_size |-> cs, chunk_overlap |-> co, min_chunk_length |-> ml]

\* Settings: chunk_size, chunk_overlap, min_chunk_length
DefaultChunkSize == 500
DefaultChunkOverlap == 50
DefaultMinChunkLength == 100
\* process_page's floor on the cleaned word count
MinPageWords == 50

\* an overlap that keeps the last sentence whatever its length
OverlapSentencesKeepLast(current_chunk, k, overlap_sentences, overlap_words) ==
    IF k = 0 THEN overlap_sentences ELSE <<current_chunk[k]>>

RECURSIVE OverlapSentences(_, _, _, _)
\* the overlap loop (lines 79-89): whole sentences from the end of the closed
\* chunk while the running word count stays within chunk_overlap
OverlapSentences(current_chunk, k, overlap_sentences, overlap_words) ==
    IF k = 0 THEN overlap_sentences
    ELSE LET s == current_chunk[k]
         IN  IF SumWords(overlap_sentences) + s.words <= overlap_words
                THEN OverlapSentences(current_chunk, k - 1,
                                      <<s>> \o overlap_sentences, overlap_words)
                ELSE overlap_sentences

\* an emit that appends the chunk whatever its length
EmitChunkAlways(cfg, st, url) ==
    [st EXCEPT !.chunks = Append(@, Chunk(url, st.chunk_index,
                                          st.current_chunk, st.current_length)),
               !.chunk_index = @ + 1]

\* an emit that advances chunk_index for a dropped chunk too
EmitChunkCountsDropped(cfg, st, url) ==
    IF JoinedLength(st.current_chunk) >= cfg.min_chunk_length
        THEN [st EXCEPT !.chunks = Append(@, Chunk(url, st.chunk_index,
                                                   st.current_chunk, st.current_length)),
                        !.chunk_index = @ + 1]
        ELSE [st EXCEPT !.chunk_index = @ + 1]

\* the emit test and append of lines 66-76 and 100-109
EmitChunk(cfg, st, url) ==
    IF JoinedLength(st.current_chunk) >= cfg.min_chunk_length
        THEN [st EXCEPT !.chunks = Append(@, Chunk(url, st.chunk_index,
                                                   st.current_chunk, st.current_length)),
                        !.chunk_index = @ + 1]
        ELSE st

RECURSIVE ChunkLoop(_, _, _, _)
\* the for loop of chunk_text (lines 59-95)
ChunkLoop(cfg, sentences, st, url) ==
    IF sentences = <<>> THEN st
    ELSE LET sentence == Head(sentences)
             closed == st.current_length + sentence.words > cfg.chunk_size
                       /\ st.current_chunk # <<>>
             emitted == EmitChunk(cfg, st, url)
             overlap == OverlapSentences(st.current_chunk, Len(st.current_chunk),
                                         <<>>, cfg.chunk_overlap)
             st1 == IF closed
                       THEN [emitted EXCEPT !.current_chunk = overlap,
                                            !.current_length = SumWords(overlap)]
                       ELSE st
         IN  ChunkLoop(cfg, Tail(sentences),
                       [st1 EXCEPT !.current_chunk = Append(@, sentence),
                                   !.current_length = @ + sentence.words],
                       url)

\* ContentProcessor.chunk_text
chunk_text(cfg, sentences, url) ==
    LET st == ChunkLoop(cfg, sentences,
                        [chunks |-> <<>>, current_chunk |-> <<>>,
                         current_length |-> 0, chunk_index |-> 0], url)
    IN  IF st.current_chunk # <<>> THEN EmitChunk(cfg, st, url).chunks ELSE st.chunks

\* A text given word by word: the length of each whitespace-separated token
\* and whether it ends in '.', '!' or '?'.  The tokens are pairwise distinct
\* strings, word0, word1, ...
Word(chars, punct) == [chars |-> chars, punct |-> punct]

\* the tokens that end a sentence: re.split(r'(?<=[.!?])\s+', text) cuts after
\* every token ending in '.', '!' or '?' that another token follows
SentenceEnds(text) == { k \in 1..Len(text) : k = Len(text) \/ text[k].punct }

RECURSIVE RangeChars(_, _, _)
\* the summed lengths of the tokens a .. b
RangeChars(text, a, b) ==
    IF a > b THEN 0
    ELSE IF a = b THEN text[a].chars
    ELSE LET mid == (a + b) \div 2
         IN  RangeChars(text, a, mid) + RangeChars(text, mid + 1, b)

\* ContentProcessor._split_into_sentences
_split_into_sentences(text) ==
    LET ends == SentenceEnds(text)
        EndOf(i) == CHOOSE e \in ends : Cardinality({ x \in ends : x <= e }) = i
        StartOf(i) == IF i = 1 THEN 1 ELSE EndOf(i - 1) + 1
    IN  [i \in 1..Cardinality(ends) |->
            Sentence(StartOf(i) - 1, EndOf(i) - StartOf(i) + 1,
                     RangeChars(text, StartOf(i), EndOf(i)) + EndOf(i) - StartOf(i))]

\* set(chunk["content"].split()): the tokens of a chunk, by their numbers
WordSet(chunk) ==
    UNION { chunk.content[i].first .. (chunk.content[i].first + chunk.content[i].words - 1) :
            i \in 1..Len(chunk.content) }

\* The cleaned, sentence-split text of each body the model's pages carry:
\*   1  a 30-word page (one sentence)
\*   2  50 one-letter words without punctuation: 99 characters
\*   3  two sentences of 300 words
\*   4  a 49-word page (one sentence)
Texts(body) ==
    IF body = 1 THEN <<Sentence(0, 30, 179)>>
    ELSE IF body = 2 THEN <<Sentence(0, 50, 99)>>
    ELSE IF body = 4 THEN <<Sentence(0, 49, 293)>>
    ELSE <<Sentence(0, 300, 1800), Sentence(300, 300, 1800)>>

\* clean_html followed by _split_into_sentences
clean_html(html) == Texts(html.body)

\* a process_page without the floor on the word count
process_page_NoFloor(cfg, page_data) ==
    [skipped |-> FALSE, url |-> page_data.url,
     word_count |-> SumWords(clean_html(page_data.html_content)),
     chunks |-> chunk_text(cfg, clean_html(page_data.html_content), page_data.url)]

\* ContentProcessor.process_page: the chunk list, or skipped (None)
process_page(cfg, page_data) ==
    LET clean_text == clean_html(page_data.html_content)
        word_count == SumWords(clean_text)
    IN  IF word_count < MinPageWords
            THEN [skipped |-> TRUE, url |-> page_data.url, word_count |-> word_count,
                  chunks |-> <<>>]
            ELSE [skipped |-> FALSE, url |-> page_data.url, word_count |-> word_count,
                  chunks |-> chunk_text(cfg, clean_text, page_data.url)]

-----------------------------------------------------------------------------
(* VectorStore.  index is the row list of the faiss index (initialized says *)
(* whether self.index is not None), metadata the chunk list, id_to_index    *)
(* the dict, kept as its set of (key, value) pairs.                         *)

EmptyVs == [index |-> <<>>, initialized |-> FALSE, metadata |-> <<>>, id_to_index |-> {}]

\* d[k] = v on a dict kept as a set of pairs
DictSet(d, k, v) == { p \in d : p[1] # k } \cup { <<k, v>> }

DictKeys(d) == { p[1] : p \in d }

\* VectorStore.initialize_index
initialize_index(s) ==
    [s EXCEPT !.index = <<>>, !.initialized = TRUE, !.metadata = <<>>, !.id_to_index = {}]

RECURSIVE StoreMetadata(_, _, _)
\* the metadata loop of add_embeddings (lines 61-65)
StoreMetadata(s, chunks_metadata, idx) ==
    IF chunks_metadata = <<>> THEN s
    ELSE StoreMetadata(
            [s EXCEPT !.metadata = Append(@, Head(chunks_metadata)),
                      !.id_to_index = DictSet(@, Head(chunks_metadata).id, idx)],
            Tail(chunks_metadata), idx + 1)

\* an add_embeddings that puts the new rows in front of the index
add_embeddings_RowsInFront(s, embeddings, chunks_metadata) ==
    LET s0 == IF s.initialized THEN s ELSE initialize_index(s)
        start_idx == Len(s0.metadata)
        s1 == [s0 EXCEPT !.index = NormalizeRows(embeddings) \o @]
    IN  StoreMetadata(s1, chunks_metadata, start_idx)

\* VectorStore.add_embeddings
add_embeddings(s, embeddings, chunks_metadata) ==
    LET s0 == IF s.initialized THEN s ELSE initialize_index(s)
        start_idx == Len(s0.metadata)
        s1 == [s0 EXCEPT !.index = @ \o NormalizeRows(embeddings)]
    IN  StoreMetadata(s1, chunks_metadata, start_idx)

\* The directory: index.faiss holds the rows, metadata.pkl the metadata list
\* and the id_to_index dict; a file is absent, whole, or cut short by a write
\* that failed after open(..., 'wb') truncated it.
EmptyDisk ==
    [index_file |-> [state |-> "absent", rows |-> <<>>],
     metadata_file |-> [state |-> "absent", metadata |-> <<>>, id_to_index |-> {}]]

\* a save() that logs a failed write and returns normally
SaveSwallowsErrors(outcome) == FALSE

\* save() re-raises whatever a write raised (lines 116-118)
SaveRaises(outcome) == outcome # "ok"

\* VectorStore.save: the directory after the call.  outcome is what the file
\* system does: "ok", "fail_index" (write_index raises, index.faiss is left
\* as it was) or "fail_metadata" (index.faiss written, the pickle write raises)
save(s, d, outcome) ==
    IF ~s.initialized THEN d
    ELSE IF outcome = "fail_index" THEN d
    ELSE IF outcome = "fail_metadata"
        THEN [index_file |-> [state |-> "whole", rows |-> s.index],
              metadata_file |-> [state |-> "cut", metadata |-> <<>>, id_to_index |-> {}]]
    ELSE [index_file |-> [state |-> "whole", rows |-> s.index],
          metadata_file |-> [state |-> "whole", metadata |-> s.metadata,
                             id_to_index |-> s.id_to_index]]

SaveOutcomes == {"ok", "fail_index", "fail_metadata"}

\* a search that asks faiss for top_k rows whatever the index holds
SearchKNoMin(top_k, count) == top_k

\* k = min(top_k, len(self.metadata)) (line 85)
SearchK(top_k, count) == Min(top_k, count)

RECURSIVE SearchResults(_, _)
\* the result loop of search (lines 89-92); metadata[-1] is the last entry
SearchResults(metadata, hits) ==
    IF hits = <<>> THEN <<>>
    ELSE LET idx == Head(hits).label
         IN  (IF idx < Len(metadata)
                 THEN <<[chunk |-> metadata[IF idx < 0 THEN Len(metadata) + 1 + idx
                                                       ELSE idx + 1],
                         score |-> Head(hits).score]>>
                 ELSE <<>>)
                \o SearchResults(metadata, Tail(hits))

\* VectorStore.search
search(s, query_embedding, top_k) ==
    IF ~s.initialized \/ Len(s.metadata) = 0 THEN <<>>
    ELSE LET q == normalize_L2(query_embedding)
             k == SearchK(top_k, Len(s.metadata))
         IN  SearchResults(s.metadata, FaissTopK(s.index, q, k, {}))

\* VectorStore.get_stats; dimension is the constructor argument, the same for
\* every instance the application builds
get_stats(s) == [total_chunks |-> Len(s.metadata), is_trained |-> s.initialized]

\* save() runs through the positions index_open, index_written, metadata_open
\* and back to idle; each write opens its file with mode 'wb', which
\* truncates it, and then fills it.

\* the directory after the step of save() that ends at position pc
SaveStep(s, d, pc) ==
    IF pc = "index_open"
        THEN [d EXCEPT !.index_file = [state |-> "cut", rows |-> <<>>]]
    ELSE IF pc = "index_written"
        THEN [d EXCEPT !.index_file = [state |-> "whole", rows |-> s.index]]
    ELSE IF pc = "metadata_open"
        THEN [d EXCEPT !.metadata_file =
                          [state |-> "cut", metadata |-> <<>>, id_to_index |-> {}]]
    ELSE [d EXCEPT !.metadata_file =
                      [state |-> "whole", metadata |-> s.metadata,
                       id_to_index |-> s.id_to_index]]

\* the position after pc in save()
SaveNextPc(pc) ==
    IF pc = "index_open" THEN "index_written"
    ELSE IF pc = "index_written" THEN "metadata_open"
    ELSE "idle"

\* What reading the two files does besides what their content decides: "ok",
\* or an error raised by read_index, by pickle.load, or by data['id_to_index']
\* after data['metadata'] was assigned
LoadOutcomes == {"ok", "fail_index", "fail_metadata", "fail_id_to_index"}

\* a handler that logs the error and keeps what was read so far
LoadExceptKeeps(s) == s

\* the except branch of load (lines 142-144)
LoadExcept(s) == initialize_index(s)

\* load() finds a file missing (line 126)
LoadMissing(d) == d.index_file.state = "absent" \/ d.metadata_file.state = "absent"

\* the first statement of load's try block that raises, or "ok"
LoadFailure(d, outcome) ==
    IF d.index_file.state = "cut" \/ outcome = "fail_index" THEN "fail_index"
    ELSE IF d.metadata_file.state = "cut" \/ outcome = "fail_metadata" THEN "fail_metadata"
    ELSE outcome

\* VectorStore.load
load(s, d, outcome) ==
    IF LoadMissing(d) THEN s
    ELSE LET failure == LoadFailure(d, outcome)
             s1 == [s EXCEPT !.index = d.index_file.rows, !.initialized = TRUE]
             s2 == [s1 EXCEPT !.metadata = d.metadata_file.metadata]
             s3 == [s2 EXCEPT !.id_to_index = d.metadata_file.id_to_index]
         IN  IF failure = "fail_index" THEN LoadExcept(s)
             ELSE IF failure = "fail_metadata" THEN LoadExcept(s1)
             ELSE IF failure = "fail_id_to_index" THEN LoadExcept(s2)
             ELSE s3

\* a constructor that does not read the directory
VectorStoreInitNoLoad(d, outcome) == EmptyVs

\* VectorStore.__init__: empty fields, then load()
VectorStoreInit(d, outcome) == load(EmptyVs, d, outcome)

-----------------------------------------------------------------------------
(* AnswerGenerator.  Scores and confidences are kept times 100.  An answer  *)
(* text is what the code reads of it: the numbers N of its [Source N]       *)
(* markers in order of occurrence, its word count, and whether it contains  *)
(* one of the uncertainty phrases.                                          *)

AnswerText(markers, words, uncertain) ==
    [kind |-> "text", markers |-> markers, words |-> words, uncertain |-> uncertain]

\* the fixed answers of lines 72, 94 and 129
InsufficientAnswer == [kind |-> "insufficient"]
ErrorAnswer == [kind |-> "error"]
NotConfiguredAnswer == AnswerText(<<>>, 9, FALSE)

\* What the completion provider does with one request: it raises, it returns
\* a text, or it returns a response whose content is None
ProviderRaises == [kind |-> "raise"]
ProviderNone == [kind |-> "none"]

\* AnswerGenerator.__init__: max_excerpt_length
MaxExcerptLength == 25

\* round(num / den) to the nearest integer, ties to the even one
RoundDiv(num, den) ==
    LET q == (2 * num + den) \div (2 * den)
    IN  IF (2 * num + den) % (2 * den) = 0 /\ q % 2 = 1 THEN q - 1 ELSE q

\* one citation dict (lines 169-182)
Citation(chunk, score) ==
    LET words == SumWords(chunk.content)
    IN  [url |-> chunk.url, chunk_id |-> chunk.id,
         excerpt |-> [words |-> Min(words, MaxExcerptLength),
                      ellipsis |-> words > MaxExcerptLength],
         relevance_score |-> score]

RECURSIVE ExtractFrom(_, _, _)
\* the loop of _extract_citations over the markers not yet looked at
ExtractFrom(markers, chunks, cited_sources) ==
    IF markers = <<>> THEN <<>>
    ELSE LET source_num == Head(markers) - 1
         IN  IF 0 <= source_num /\ source_num < Len(chunks)
                /\ source_num \notin cited_sources
                THEN <<Citation(chunks[source_num + 1].chunk, chunks[source_num + 1].score)>>
                     \o ExtractFrom(Tail(markers), chunks, cited_sources \cup {source_num})
                ELSE ExtractFrom(Tail(markers), chunks, cited_sources)

RECURSIVE ExtractEveryMarker(_, _)
\* an extraction that does not keep the set of cited sources
ExtractEveryMarker(markers, chunks) ==
    IF markers = <<>> THEN <<>>
    ELSE LET source_num == Head(markers) - 1
         IN  (IF 0 <= source_num /\ source_num < Len(chunks)
                 THEN <<Citation(chunks[source_num + 1].chunk, chunks[source_num + 1].score)>>
                 ELSE <<>>)
             \o ExtractEveryMarker(Tail(markers), chunks)

_extract_citations_NoDedup(answer, chunks) == ExtractEveryMarker(answer.markers, chunks)

\* AnswerGenerator._extract_citations
_extract_citations(answer, chunks) == ExtractFrom(answer.markers, chunks, {})

RECURSIVE SumScores(_, _)
\* sum(score for _, score in chunks[:n])
SumScores(chunks, n) ==
    IF n = 0 \/ chunks = <<>> THEN 0
    ELSE Head(chunks).score + SumScores(Tail(chunks), n - 1)

\* AnswerGenerator._calculate_confidence, times 100:
\*   0.4 * min(citations / 3, 1) + 0.4 * mean of the first three scores
\*   + 0.2 * min(words / 100, 1), rounded to two places
_calculate_confidence(answer, citations, chunks) ==
    IF chunks = <<>> THEN 0
    ELSE LET n == Min(Len(citations), 3)
             m == Min(Len(chunks), 3)
             w == Min(answer.words, 100)
         IN  RoundDiv(200 * m * n + 6 * SumScores(chunks, 3) + 3 * m * w, 15 * m)

\* the missing_information field: None, or a list
NoMissing == [present |-> FALSE, items |-> <<>>]
Missing(items) == [present |-> TRUE, items |-> items]

\* AnswerGenerator._identify_missing_information: the sentences holding the
\* first uncertainty phrase found, or the generic notice
_identify_missing_information(answer) ==
    IF answer.uncertain THEN Missing(<<"sentence">>) ELSE Missing(<<"incomplete">>)

\* a generate_answer without the test of lines 70-76
ShortCircuitNever(retrieved_chunks) == FALSE

\* if not retrieved_chunks (line 70)
ShortCircuit(retrieved_chunks) == retrieved_chunks = <<>>

\* an except clause that matches no provider error
ProviderErrorCaughtNever(outcome) == FALSE

\* except Exception (line 91) catches whatever the provider call raises
ProviderErrorCaught(outcome) == outcome.kind = "raise"

\* _generate_openai without a client returns its fixed text (lines 128-129);
\* otherwise the provider is called
CallsProvider(provider, client) == provider = "gemini" \/ client

\* generate_answer raises instead of returning
AnswerRaised(provider_calls) ==
    [raised |-> TRUE, provider_calls |-> provider_calls, answer |-> [kind |-> "raised"],
     citations |-> <<>>, confidence |-> 0, missing_information |-> NoMissing]

\* lines 100-124: citations, confidence and missing information of a text
Grounded(answer_text, retrieved_chunks, min_confidence, provider_calls) ==
    LET citations == _extract_citations(answer_text, retrieved_chunks)
        confidence == _calculate_confidence(answer_text, citations, retrieved_chunks)
    IN  [raised |-> FALSE, provider_calls |-> provider_calls, answer |-> answer_text,
         citations |-> citations, confidence |-> confidence,
         missing_information |->
             IF confidence < min_confidence
                THEN _identify_missing_information(answer_text)
                ELSE NoMissing]

\* AnswerGenerator.generate_answer: the returned dict, or that the call
\* raised, and the number of requests sent to the provider.  A response whose
\* content is None passes the try block and fails in re.finditer (line 161).
generate_answer(provider, client, retrieved_chunks, min_confidence, outcome) ==
    IF ShortCircuit(retrieved_chunks)
        THEN [raised |-> FALSE, provider_calls |-> 0, answer |-> InsufficientAnswer,
              citations |-> <<>>, confidence |-> 0,
              missing_information |-> Missing(<<"no sources">>)]
    ELSE IF ~CallsProvider(provider, client)
        THEN Grounded(NotConfiguredAnswer, retrieved_chunks, min_confidence, 0)
    ELSE IF outcome.kind = "raise"
        THEN IF ProviderErrorCaught(outcome)
                THEN [raised |-> FALSE, provider_calls |-> 1, answer |-> ErrorAnswer,
                      citations |-> <<>>, confidence |-> 0,
                      missing_information |-> Missing(<<"generation error">>)]
                ELSE AnswerRaised(1)
    ELSE IF outcome.kind = "none" THEN AnswerRaised(1)
    ELSE Grounded(outcome, retrieved_chunks, min_confidence, 1)

-----------------------------------------------------------------------------
(* Values of the variables a specification leaves alone *)

NoJobDoc ==
    [status |-> "absent", urls |-> <<>>, domain_allowlist |-> {},
     max_pages |-> 0, max_depth |-> 0, pages_processed |-> 0, total_pages |-> 0,
     progress |-> <<0, 1>>, error_message |-> FALSE, completed_at |-> FALSE,
     updated_at |-> 0]

IdleCrawler == NewCrawler({}, 0, 0)

IdleTask ==
    [pc |-> "none", exc |-> "none", pages |-> <<>>, next |-> 1,
     all_chunks |-> <<>>, embeddings |-> <<>>,
     started |-> FALSE, raisedAt |-> "none", adds |-> 0, saves |-> 0, savedOk |-> FALSE]

NoSearch == [called |-> FALSE, top_k |-> 0, count |-> 0, ntotal |-> 0,
             initialized |-> FALSE, result |-> <<>>]

NoLoad == [called |-> FALSE, missing |-> FALSE, failure |-> "ok", result |-> EmptyVs]

\* pc: the position of the running save() call, "idle" outside one, "crashed"
\* once the process has died; pre and post: the directory when the running
\* (or interrupted) save() began and what that call writes; saved: save() has returned since
\* the last change of the instance; fresh: a second instance on the same path
IdlePersist ==
    [pc |-> "idle", pre |-> EmptyDisk, post |-> EmptyDisk, inSave |-> FALSE,
     saved |-> FALSE, fresh |-> EmptyVs, constructed |-> FALSE, lastLoad |-> NoLoad]

NoProc == [called |-> "none"]

NoGen == [called |-> FALSE]

NoNorm == [called |-> FALSE]

NoFetch == [pc |-> "none"]

-----------------------------------------------------------------------------
(* SpecUrl: WebCrawler._normalize_url on URL strings.  A URL string is      *)
(* "https://x.com" followed by a tail of characters; urlparse leaves the    *)
(* scheme and the netloc as they are, so the model computes on the tail.    *)
(* The crawler normalizes a link when it collects it (line 82) and again    *)
(* when it takes it from the queue (line 128): NormAgain is that second     *)
(* call on the first call's result.                                         *)

UrlChars == {"a", "/", ";", "?", "#"}

\* the tails of absolute URLs: empty, or starting where the netloc ends
UrlTails ==
    { t \in SeqsUpTo(UrlChars, MaxTail) : t = <<>> \/ t[1] \in {"/", "?", "#"} }

InitUrl ==
    /\ \E t \in UrlTails : norm = [called |-> FALSE, url |-> t, results |-> <<>>]
    /\ crawler = [c \in Jobs |-> IdleCrawler]
    /\ jobs = [j \in Jobs |-> NoJobDoc]
    /\ web_pages = {}
    /\ content_chunks = {}
    /\ callerPc = [j \in Jobs |-> "idle"]
    /\ task = [j \in Jobs |-> IdleTask]
    /\ vs = EmptyVs
    /\ disk = EmptyDisk
    /\ lastSearch = NoSearch
    /\ persist = IdlePersist
    /\ proc = NoProc
    /\ gen = NoGen
    /\ fetch = NoFetch

UnchangedButNorm ==
    UNCHANGED <<crawler, jobs, web_pages, content_chunks, callerPc, task, vs, disk,
                lastSearch, persist, proc, gen, fetch>>

\* normalized = self._normalize_url(absolute_url)
NormCall ==
    /\ ~norm.called
    /\ norm' = [norm EXCEPT !.called = TRUE,
                            !.results = <<_normalize_url_string(norm.url)>>]
    /\ UnchangedButNorm

\* normalized_url = self._normalize_url(url) on a string already normalized
NormAgain ==
    /\ norm.called
    /\ Len(norm.results) = 1
    /\ norm' = [norm EXCEPT !.results = Append(@, _normalize_url_string(@[1]))]
    /\ UnchangedButNorm

NextUrl == NormCall \/ NormAgain

SpecUrl == InitUrl /\ [][NextUrl]_vars

\* the URL has a path and nothing after it
PathOnly(t) == t # <<>> /\ \A i \in 1..Len(t) : t[i] \notin {"?", "#"}

\* C24: _normalize_url gives a URL and the same URL with a trailing slash the
\* same string, drops the fragment, keeps the query, and normalizing its
\* result again changes nothing.
C24_NormalizeIdempotent ==
    norm.called =>
        LET u == norm.url
            n == norm.results[1]
        IN  /\ PathOnly(u) => _normalize_url_string(u \o <<"/">>) = n
            /\ \A i \in 1..Len(n) : n[i] # "#"
            /\ urlparse(u).query # <<>> =>
                  /\ Len(n) > Len(urlparse(u).query)
                  /\ SubSeq(n, Len(n) - Len(urlparse(u).query), Len(n))
                        = <<"?">> \o urlparse(u).query
            /\ Len(norm.results) = 2 => norm.results[2] = n

-----------------------------------------------------------------------------
(* SpecCrawl: WebCrawler(domain_allowlist, max_pages, max_depth) and one    *)
(* crawl(seed_urls) call on it, for every seed list, every link structure   *)
(* and every fetch outcome within the bounds.                               *)

UA == Url(HostX, <<>>)                     \* "https://x.com"
UASlash == Url(HostX, <<"/">>)             \* "https://x.com/"
UB == Url(HostX, <<"/", "a">>)             \* "https://x.com/a"
UC == Url(HostOther, <<>>)                 \* "https://other.org"
UD == UrlAs(HostX, HostOther, <<>>)        \* "https://x.com@other.org"

CrawlUrls == {UA, UASlash, UC, UD}
CrawlBodies == {1}
CrawlAllowlists == {{}, {HostX}}
CrawlHtmls == { Html(b, l) : b \in CrawlBodies, l \in SeqsUpTo(CrawlUrls, MaxLinks) }
CrawlOutcomes == {FetchFailed, FetchNonHtml} \cup { FetchOk(h) : h \in CrawlHtmls }

\* the crawler instance SpecCrawl runs
C0 == CHOOSE c \in Jobs : TRUE

RestIdle ==
    /\ jobs = [j \in Jobs |-> NoJobDoc]
    /\ web_pages = {}
    /\ content_chunks = {}
    /\ callerPc = [j \in Jobs |-> "idle"]
    /\ task = [j \in Jobs |-> IdleTask]
    /\ persist = IdlePersist
    /\ proc = NoProc
    /\ gen = NoGen
    /\ norm = NoNorm
    /\ fetch = NoFetch

InitCrawl ==
    /\ \E allow \in CrawlAllowlists, mp \in 0..MaxPagesBound, md \in (-1)..MaxDepthBound :
          crawler = [c \in Jobs |-> IF c = C0 THEN NewCrawler(allow, mp, md) ELSE IdleCrawler]
    /\ RestIdle
    /\ vs = EmptyVs
    /\ disk = EmptyDisk
    /\ lastSearch = NoSearch

UnchangedButCrawler ==
    UNCHANGED <<jobs, web_pages, content_chunks, callerPc, task, vs, disk, lastSearch, persist, proc, gen, norm, fetch>>

\* results = await crawler.crawl(seed_urls), the seeds taken from urls
CrawlCallOn(urls) ==
    /\ crawler[C0].pc = "idle"
    /\ \E seed_urls \in SeqsUpTo(urls, MaxSeeds) :
          crawler' = [crawler EXCEPT ![C0] = CrawlEnter(@, seed_urls, FALSE)]
    /\ UnchangedButCrawler

CrawlCall == CrawlCallOn(CrawlUrls)

\* one pass from the while test to the fetch_page call, a skip, or the return
CrawlStep ==
    /\ crawler[C0].pc = "loop"
    /\ crawler' = [crawler EXCEPT ![C0] = CrawlDequeue(@)]
    /\ UnchangedButCrawler

\* fetch_page returns one of outcomes; the page is accepted, discarded or absent
CrawlFetchOn(outcomes) ==
    /\ crawler[C0].pc = "fetch"
    /\ \E outcome \in outcomes :
          crawler' = [crawler EXCEPT ![C0] = CrawlFetched(@, outcome)]
    /\ UnchangedButCrawler

CrawlFetch == CrawlFetchOn(CrawlOutcomes)

NextCrawl == CrawlCall \/ CrawlStep \/ CrawlFetch

SpecCrawl == InitCrawl /\ [][NextCrawl]_vars

\* C1: crawl returns at most max_pages pages, none when max_pages = 0.
C1_AtMostMaxPages ==
    \A c \in Jobs :
        crawler[c].pc = "returned" =>
            /\ Len(crawler[c].results) <= crawler[c].max_pages
            /\ (crawler[c].max_pages = 0 => crawler[c].results = <<>>)

\* the page budget, not the frontier, ended a crawl that had collected pages
C1_Witness ==
    /\ crawler[C0].pc = "returned"
    /\ crawler[C0].max_pages >= 2
    /\ Len(crawler[C0].results) = crawler[C0].max_pages
    /\ crawler[C0].queue # <<>>

\* C2: seeds are queued at depth 0, links of a page accepted at depth d at
\* depth d + 1; every fetch_page call and every result has depth <= max_depth.
C2_DepthBound ==
    \A c \in Jobs :
        LET cr == crawler[c]
        IN  /\ \A i \in 1..Len(cr.fetched) : cr.fetched[i][2] <= cr.max_depth
            /\ \A i \in 1..Len(cr.resDepth) : cr.resDepth[i] <= cr.max_depth
            /\ Len(cr.resDepth) = Len(cr.results)
            /\ (cr.pc = "fetch" => cr.depth <= cr.max_depth)

\* a page at the depth limit was accepted and its links were not followed
C2_Witness ==
    /\ crawler[C0].pc = "returned"
    /\ crawler[C0].max_depth = 1
    /\ \E i \in 1..Len(crawler[C0].resDepth) :
          /\ crawler[C0].resDepth[i] = 1
          /\ crawler[C0].results[i].links # <<>>

\* C3: no two pages of the result list have the same content hash.
C3_DistinctHashes ==
    \A c \in Jobs :
        \A i, k \in 1..Len(crawler[c].results) :
            i # k => crawler[c].results[i].content_hash # crawler[c].results[k].content_hash

\* a fetched page was discarded as a duplicate after other pages were accepted
C3_Witness ==
    /\ crawler[C0].duplicates >= 1
    /\ Len(crawler[C0].results) >= 2

\* some allowlist entry is a substring of the URL's host
HostAllowed(allow, u) == \E allowed \in allow : IsSubstring(allowed, u.host)

\* C25: with a non-empty allowlist every URL crawl fetches, and so every
\* result page, has a host that contains some allowlist entry; with an empty
\* allowlist no URL is refused for its host.
C25_AllowlistRestrictsFetches ==
    \A c \in Jobs :
        LET cr == crawler[c]
        IN  /\ cr.domain_allowlist # {} =>
                  /\ \A i \in 1..Len(cr.fetched) :
                        HostAllowed(cr.domain_allowlist, cr.fetched[i][1])
                  /\ \A i \in 1..Len(cr.results) :
                        HostAllowed(cr.domain_allowlist, cr.results[i].url)
            /\ cr.domain_allowlist = {} =>
                  \A u \in CrawlUrls : _is_allowed_domain(cr.domain_allowlist, u)

\* C31: a fetch failure never aborts the crawl.  The step in which fetch_page
\* gives up on a URL leaves the results and the frontier as they were and
\* returns to the loop; no step of a crawl call raises or loses a page that was
\* accepted, so the list returned holds every page accepted before and after.
C31_FetchFailureNotFatal ==
    [][\A c \in Jobs :
          LET cr == crawler[c]
              nx == crawler'[c]
          IN  /\ (cr.pc = "fetch" /\ nx.failed_urls # cr.failed_urls) =>
                    /\ nx.pc = "loop"
                    /\ nx.results = cr.results
                    /\ nx.queue = cr.queue
              /\ cr.pc \in {"loop", "fetch"} =>
                    /\ nx.pc \in {"loop", "fetch", "returned"}
                    /\ Len(nx.results) >= Len(cr.results)
                    /\ SubSeq(nx.results, 1, Len(cr.results)) = cr.results]_vars

\* a crawl returned two pages, one fetched before and one after a URL that failed
C31_Witness ==
    LET cr == crawler[C0]
    IN  /\ cr.pc = "returned"
        /\ \E i, j, k \in 1..Len(cr.fetched) :
              /\ i < j /\ j < k
              /\ cr.fetched[j][1] \in cr.failed_urls
              /\ \E a, b \in 1..Len(cr.results) :
                    /\ a < b
                    /\ cr.results[a].url = cr.fetched[i][1]
                    /\ cr.results[b].url = cr.fetched[k][1]

\* C38: the crawl is breadth-first.  The depths of the URLs fetched by one
\* crawl call never decrease, the frontier is ordered by depth, and while a
\* URL is being fetched no frontier entry is shallower than it.
C38_BreadthFirst ==
    \A c \in Jobs :
        LET cr == crawler[c]
        IN  /\ \A i, k \in 1..Len(cr.fetched) :
                  i < k => cr.fetched[i][2] <= cr.fetched[k][2]
            /\ \A i, k \in 1..Len(cr.queue) :
                  i < k => cr.queue[i][2] <= cr.queue[k][2]
            /\ cr.pc = "fetch" =>
                  \A i \in 1..Len(cr.queue) : cr.queue[i][2] >= cr.depth

\* a seed was fetched after a link of depth 1 had been queued behind it, and
\* the link was fetched after the seed
C38_Witness ==
    LET cr == crawler[C0]
    IN  /\ Len(cr.fetched) >= 3
        /\ cr.fetched[2][2] = 0
        /\ cr.fetched[3][2] = 1
        /\ Len(cr.results) >= 1
        /\ cr.resDepth[1] = 0
        /\ cr.results[1].links # <<>>

-----------------------------------------------------------------------------
(* SpecCrawlPaths: the same crawler and crawl(seed_urls) call on the pages  *)
(* of one host whose paths have a ";": "https://x.com/;/", "https://x.com/;"*)
(* and "https://x.com".                                                     *)

UP == Url(HostX, <<"/", ";", "/">>)
UQ == Url(HostX, <<"/", ";">>)

PathUrls == {UA, UP, UQ}
PathOutcomes ==
    {FetchFailed, FetchNonHtml}
        \cup { FetchOk(Html(1, l)) : l \in SeqsUpTo(PathUrls, MaxLinks) }

PathCrawlCall == CrawlCallOn(PathUrls)

PathCrawlFetch == CrawlFetchOn(PathOutcomes)

NextCrawlPaths == PathCrawlCall \/ CrawlStep \/ PathCrawlFetch

SpecCrawlPaths == InitCrawl /\ [][NextCrawlPaths]_vars

\* the tail without its fragment and without one trailing slash
DropSlashFragment(tail) ==
    LET p == SplitFirst(tail, "#")[1]
    IN  IF p # <<>> /\ p[Len(p)] = "/" THEN SubSeq(p, 1, Len(p) - 1) ELSE p

\* u and v are the same URL or differ only by a trailing slash or a fragment
SameButSlashOrFragment(u, v) ==
    /\ netloc(u) = netloc(v)
    /\ DropSlashFragment(u.tail) = DropSlashFragment(v.tail)

\* C34: within one crawl fetch_page is called at most once per normalized
\* URL, and it is not called for two queue entries that are the same URL or
\* differ only by a trailing slash or a fragment, whatever the first fetch
\* returned.
C34_FetchOncePerUrl ==
    \A c \in Jobs :
        LET cr == crawler[c]
        IN  \A i, k \in 1..Len(cr.fetched) :
                i # k =>
                    /\ cr.fetched[i][1] # cr.fetched[k][1]
                    /\ ~SameButSlashOrFragment(cr.fetched[i][3], cr.fetched[k][3])

-----------------------------------------------------------------------------
(* SpecRecrawl: one WebCrawler instance and crawl(seed_urls) calls on it,   *)
(* one after the other.  visited_urls and failed_urls are attributes of the *)
(* instance, set in __init__; results, queue and seen_hashes are locals of  *)
(* the call.                                                                *)

RecrawlUrls == {UA, UASlash, UC}
RecrawlOutcomes ==
    {FetchFailed, FetchNonHtml}
        \cup { FetchOk(Html(1, l)) : l \in SeqsUpTo(RecrawlUrls, MaxLinks) }

RecrawlCall == CrawlCallOn(RecrawlUrls)

RecrawlFetch == CrawlFetchOn(RecrawlOutcomes)

\* results = await crawler.crawl(seed_urls) on an instance whose earlier
\* crawl call has returned
CrawlAgain ==
    /\ crawler[C0].pc = "returned"
    /\ \E seed_urls \in SeqsUpTo(RecrawlUrls, MaxSeeds) :
          crawler' = [crawler EXCEPT ![C0] = CrawlEnter(@, seed_urls, FALSE)]
    /\ UnchangedButCrawler

NextRecrawl == RecrawlCall \/ CrawlStep \/ RecrawlFetch \/ CrawlAgain

SpecRecrawl == InitCrawl /\ [][NextRecrawl]_vars

\* the web: what fetch_page returns for each normalized URL
Webs == [{ _normalize_url(u) : u \in RecrawlUrls } -> RecrawlOutcomes]

RECURSIVE CrawlRun(_, _)
\* the crawl call cr is in, run to its return on the web given
CrawlRun(cr, web) ==
    IF cr.pc = "returned" THEN cr
    ELSE IF cr.pc = "loop" THEN CrawlRun(CrawlDequeue(cr), web)
    ELSE CrawlRun(CrawlFetched(cr, web[cr.url]), web)

\* the same call on an instance just constructed
OnNewInstance(cr) == [cr EXCEPT !.visited_urls = {}, !.failed_urls = {}]

\* C33: traversal state is scoped to one crawl call.  Every crawl call
\* starts with an empty visited set, and on every web it returns what the
\* same call returns on a crawler just constructed, whatever calls the
\* instance has served before.
C33_CrawlCallStartsFresh ==
    [][\A c \in Jobs :
          (crawler[c].pc \in {"idle", "returned"} /\ crawler'[c].pc = "loop") =>
              /\ \A web \in Webs :
                    CrawlRun(crawler'[c], web).results
                        = CrawlRun(OnNewInstance(crawler'[c]), web).results
              /\ crawler'[c].visited_urls = {}]_vars

\* SpecRecrawl with the scheduling of the event loop: a crawl call that can
\* take its next step (the fetch it awaits has returned, the sleep is over)
\* takes it.
SpecRecrawlFair == SpecRecrawl /\ WF_vars(CrawlStep) /\ WF_vars(RecrawlFetch)

\* C39: crawl terminates.  Whatever the seeds, the links of the pages
\* (cycles included) and the outcomes of the fetches, a crawl call that has
\* started returns.
C39_CrawlTerminates ==
    \A c \in Jobs :
        (crawler[c].pc \in {"loop", "fetch"}) ~> (crawler[c].pc = "returned")

\* a crawl returned although a page it accepted links to itself and to
\* nothing else, after a fetch that failed, with room left for more pages
C39_Witness ==
    LET cr == crawler[C0]
    IN  /\ cr.pc = "returned"
        /\ cr.failed_urls # {}
        /\ Len(cr.results) < cr.max_pages
        /\ cr.max_depth >= 1
        /\ \E i \in 1..Len(cr.results) :
              /\ cr.resDepth[i] = 0
              /\ cr.results[i].links = <<cr.results[i].url>>

-----------------------------------------------------------------------------
(* SpecFetch: WebCrawler(max_retries) and fetch_page(url) calls on it, one  *)
(* after the other, with every outcome of every client.get.  One action is  *)
(* the code from one await to the next.  log is the sequence of awaits the  *)
(* running (or last) call has completed: <<"get", outcome>> for client.get  *)
(* and what the code made of the response, <<"sleep", seconds>> for         *)
(* asyncio.sleep.                                                           *)

\* client.get and the handling of its response (lines 63-106): a 200 HTML
\* response parsed into a page, a 200 response of another content type, another
\* status code, httpx.TimeoutException, httpx.HTTPStatusError, and any other
\* exception, raised by the client or while the page is parsed
AttemptOutcomes == {"html", "nonhtml", "status", "timeout", "http_error", "error"}

FetchUrls == {UA, UB}

\* the frame of a fetch_page(url) call at its first line
FetchEnter(f, url) ==
    [f EXCEPT !.url = url, !.attempt = 0, !.log = <<>>, !.result = "none",
              !.failed_before = f.failed_urls]

\* lines 111-112
FetchExhausted(f) ==
    [f EXCEPT !.failed_urls = @ \cup {f.url}, !.result = "None", !.pc = "returned"]

\* for attempt in range(self.max_retries): (line 61)
FetchLoop(f, attempt) ==
    IF attempt < f.max_retries THEN [f EXCEPT !.attempt = attempt, !.pc = "get"]
    ELSE FetchExhausted(f)

\* return None at the non-HTML content type (lines 68-70)
NonHtmlReturns(outcome) == outcome = "nonhtml"

\* lines 64-109 once client.get has returned or raised
FetchAttempted(f, outcome) ==
    LET g == [f EXCEPT !.log = Append(@, <<"get", outcome>>)]
    IN  IF outcome = "html" THEN [g EXCEPT !.result = "page", !.pc = "returned"]
        ELSE IF NonHtmlReturns(outcome) THEN [g EXCEPT !.result = "None", !.pc = "returned"]
        ELSE IF g.attempt < g.max_retries - 1 THEN [g EXCEPT !.pc = "sleep"]
        ELSE FetchLoop(g, g.attempt + 1)

\* await asyncio.sleep(2 ** attempt) has returned (line 109)
FetchSlept(f) ==
    FetchLoop([f EXCEPT !.log = Append(@, <<"sleep", 2 ^ f.attempt>>)], f.attempt + 1)

InitFetch ==
    /\ \E mr \in 0..MaxRetriesBound :
          fetch = [pc |-> "idle", max_retries |-> mr, failed_urls |-> {},
                   failed_before |-> {}, url |-> NoUrl, attempt |-> 0, log |-> <<>>,
                   result |-> "none"]
    /\ crawler = [c \in Jobs |-> IdleCrawler]
    /\ jobs = [j \in Jobs |-> NoJobDoc]
    /\ web_pages = {}
    /\ content_chunks = {}
    /\ callerPc = [j \in Jobs |-> "idle"]
    /\ task = [j \in Jobs |-> IdleTask]
    /\ vs = EmptyVs
    /\ disk = EmptyDisk
    /\ lastSearch = NoSearch
    /\ persist = IdlePersist
    /\ proc = NoProc
    /\ gen = NoGen
    /\ norm = NoNorm

UnchangedButFetch ==
    UNCHANGED <<crawler, jobs, web_pages, content_chunks, callerPc, task, vs, disk,
                lastSearch, persist, proc, gen, norm>>

\* page_data = await self.fetch_page(normalized_url), up to the first await
FetchCall ==
    /\ fetch.pc \in {"idle", "returned"}
    /\ \E url \in FetchUrls : fetch' = FetchLoop(FetchEnter(fetch, url), 0)
    /\ UnchangedButFetch

\* response = await client.get(url, headers=headers)
FetchGet ==
    /\ fetch.pc = "get"
    /\ \E outcome \in AttemptOutcomes : fetch' = FetchAttempted(fetch, outcome)
    /\ UnchangedButFetch

\* await asyncio.sleep(2 ** attempt)
FetchSleep ==
    /\ fetch.pc = "sleep"
    /\ fetch' = FetchSlept(fetch)
    /\ UnchangedButFetch

NextFetch == FetchCall \/ FetchGet \/ FetchSleep

SpecFetch == InitFetch /\ [][NextFetch]_vars

\* the outcomes of the client.get awaits in the log, in order
Attempts(log) ==
    LET at == { p \in 1..Len(log) : log[p][1] = "get" }
    IN  [i \in 1..Cardinality(at) |->
            log[CHOOSE p \in at : Cardinality({ q \in at : q <= p }) = i][2]]

\* no attempt of the call returned a page
AllFailed(attempts) == \A i \in 1..Len(attempts) : attempts[i] # "html"

\* C29: a fetch_page call makes at most max_retries attempts and none after
\* a success; it waits 2^attempt only between two attempts; when all
\* max_retries attempts have failed the URL is in failed_urls and None is
\* returned, and only such a call adds its URL to failed_urls.
C29_BoundedRetries ==
    fetch.pc \notin {"none", "idle"} =>
        LET log == fetch.log
            attempts == Attempts(log)
            done == fetch.pc = "returned"
            exhausted == Len(attempts) = fetch.max_retries /\ AllFailed(attempts)
        IN  /\ Len(attempts) <= fetch.max_retries
            /\ \A i \in 1..(Len(attempts) - 1) : attempts[i] # "html"
            /\ \A p \in 1..Len(log) :
                  log[p][1] = "sleep" =>
                     /\ p > 1 /\ log[p - 1][1] = "get"
                     /\ log[p][2] = 2 ^ (Cardinality({ q \in 1..p : log[q][1] = "get" }) - 1)
                     /\ p < Len(log) => log[p + 1][1] = "get"
                     /\ done => p < Len(log)
            /\ done /\ exhausted => fetch.url \in fetch.failed_urls /\ fetch.result = "None"
            /\ done /\ fetch.failed_urls # fetch.failed_before =>
                  exhausted /\ fetch.failed_urls = fetch.failed_before \cup {fetch.url}
            /\ done /\ ~exhausted => fetch.failed_urls = fetch.failed_before

\* C30: a 200 response that is not HTML is a failed attempt: the call goes on
\* to the next attempt unless it was the last, and a call whose attempts were
\* all non-HTML made max_retries of them and left the URL in failed_urls.
C30_NonHtmlRetried ==
    LET attempts == Attempts(fetch.log)
    IN  fetch.pc = "returned" /\ attempts # <<>>
           /\ (\A i \in 1..Len(attempts) : attempts[i] = "nonhtml") =>
              /\ Len(attempts) = fetch.max_retries
              /\ fetch.url \in fetch.failed_urls
              /\ fetch.result = "None"

-----------------------------------------------------------------------------
(* SpecIndex: one VectorStore on an empty directory, driven through         *)
(* initialize_index, add_embeddings and search with every batch and query   *)
(* within the bounds.  A batch pairs each chunk with its embedding, as the  *)
(* ingestion service builds it; chunk ids repeat across batches when a page *)
(* is ingested again.                                                       *)

IndexVecs == {ZeroVec, Vec(0, 2), Vec(3, 1)}
IndexQueries == {ZeroVec, Vec(0, 1), Vec(1, 2)}
IndexChunks == {Chunk(UA, 0, <<>>, 0), Chunk(UA, 1, <<>>, 0), Chunk(UB, 0, <<>>, 0)}

\* batches of (embedding, chunk) pairs whose chunk ids are distinct
IndexBatches ==
    { b \in SeqsUpTo(IndexVecs \X IndexChunks, MaxBatch) :
        /\ b # <<>>
        /\ \A i, k \in 1..Len(b) : i # k => b[i][2].id # b[k][2].id }

InitIndex ==
    /\ vs = EmptyVs
    /\ disk = EmptyDisk
    /\ lastSearch = NoSearch
    /\ crawler = [c \in Jobs |-> IdleCrawler]
    /\ RestIdle

UnchangedButIndex ==
    UNCHANGED <<crawler, jobs, web_pages, content_chunks, callerPc, task, disk,
                persist, proc, gen, norm, fetch>>

\* store.initialize_index()
IndexInitialize ==
    /\ vs' = initialize_index(vs)
    /\ vs' # vs
    /\ lastSearch' = NoSearch
    /\ UnchangedButIndex

\* store.add_embeddings(embeddings, chunks_metadata)
IndexAdd ==
    /\ \E b \in IndexBatches :
          /\ Len(vs.metadata) + Len(b) <= MaxIndexSize
          /\ vs' = add_embeddings(vs, [i \in 1..Len(b) |-> b[i][1]],
                                      [i \in 1..Len(b) |-> b[i][2]])
    /\ lastSearch' = NoSearch
    /\ UnchangedButIndex

\* store.search(query_embedding, top_k)
IndexSearch ==
    /\ \E q \in IndexQueries, top_k \in 1..MaxTopK :
          lastSearch' = [called |-> TRUE, top_k |-> top_k,
                         count |-> Len(vs.metadata), ntotal |-> Len(vs.index),
                         initialized |-> vs.initialized,
                         result |-> search(vs, q, top_k)]
    /\ UNCHANGED vs
    /\ UnchangedButIndex

NextIndex == IndexInitialize \/ IndexAdd \/ IndexSearch

SpecIndex == InitIndex /\ [][NextIndex]_vars

\* C9: id_to_index is a bijection from the stored chunk ids onto
\* 0 .. count - 1, and count = len(metadata) is the number of stored vectors.
C9_IdToIndexBijection ==
    LET ids == { vs.metadata[i].id : i \in 1..Len(vs.metadata) }
        count == Len(vs.metadata)
    IN  /\ DictKeys(vs.id_to_index) = ids
        /\ { p[2] : p \in vs.id_to_index } = 0..(count - 1)
        /\ Cardinality(vs.id_to_index) = count
        /\ count = Len(vs.index)

\* C10: search returns at most min(k, count) results, scores non-increasing
\* in list order, and no result when the index is uninitialised or empty.
C10_SearchBounded ==
    lastSearch.called =>
        /\ Len(lastSearch.result) <= Min(lastSearch.top_k, lastSearch.count)
        /\ \A i \in 1..(Len(lastSearch.result) - 1) :
              lastSearch.result[i].score >= lastSearch.result[i + 1].score
        /\ (~lastSearch.initialized \/ lastSearch.ntotal = 0
              => lastSearch.result = <<>>)

\* a search for fewer rows than the index holds returned top_k of them, the
\* better one first
C10_Witness ==
    /\ lastSearch.called
    /\ lastSearch.top_k < lastSearch.count
    /\ Len(lastSearch.result) = lastSearch.top_k
    /\ Len(lastSearch.result) >= 2
    /\ lastSearch.result[1].score > lastSearch.result[2].score

-----------------------------------------------------------------------------
(* SpecPersist: the process that owns the VectorStore singleton adds rows    *)
(* and saves; it can die at any point, between any two writes of save(),    *)
(* and the next process constructs its VectorStore from the directory the   *)
(* dead one left.  A second VectorStore can be constructed on the same path *)
(* while the first is alive.                                                *)

PersistRows == {<<Vec(0, 2), Chunk(UA, 0, <<>>, 0)>>, <<Vec(3, 1), Chunk(UB, 0, <<>>, 0)>>}

InitPersist ==
    /\ vs = VectorStoreInit(EmptyDisk, "ok")
    /\ disk = EmptyDisk
    /\ lastSearch = NoSearch
    /\ crawler = [c \in Jobs |-> IdleCrawler]
    /\ RestIdle

UnchangedButPersist ==
    UNCHANGED <<crawler, jobs, web_pages, content_chunks, callerPc, task, lastSearch,
                proc, gen, norm, fetch>>

\* the second instance goes out of scope
Forget(p) == [p EXCEPT !.fresh = EmptyVs, !.constructed = FALSE, !.lastLoad = NoLoad]

\* what one load() call was given and what it left
LoadRecord(d, outcome) ==
    [called |-> TRUE, missing |-> LoadMissing(d),
     failure |-> IF LoadMissing(d) THEN "ok" ELSE LoadFailure(d, outcome),
     result |-> VectorStoreInit(d, outcome)]

\* store.add_embeddings(embeddings, chunks_metadata) with one row
PersistAdd ==
    /\ persist.pc = "idle"
    /\ Len(vs.metadata) < MaxPersistRows
    /\ Len(vs.index) < MaxPersistRows
    /\ \E r \in PersistRows : vs' = add_embeddings(vs, <<r[1]>>, <<r[2]>>)
    /\ persist' = [Forget(persist) EXCEPT !.saved = FALSE]
    /\ UNCHANGED disk
    /\ UnchangedButPersist

\* store.save() up to the open of index.faiss, or its early return (lines 98-100)
PersistSaveCall ==
    /\ persist.pc = "idle"
    /\ IF ~vs.initialized
          THEN /\ persist' = [Forget(persist) EXCEPT !.saved = TRUE]
               /\ UNCHANGED disk
          ELSE /\ persist' = [Forget(persist) EXCEPT !.pc = "index_open", !.pre = disk,
                                                     !.post = save(vs, disk, "ok"),
                                                     !.inSave = TRUE, !.saved = FALSE]
               /\ disk' = SaveStep(vs, disk, "index_open")
    /\ UNCHANGED vs
    /\ UnchangedButPersist

\* the next write of the running save()
PersistSaveStep ==
    /\ persist.pc \in {"index_open", "index_written", "metadata_open"}
    /\ LET next == SaveNextPc(persist.pc)
       IN  /\ disk' = SaveStep(vs, disk, next)
           /\ persist' = [persist EXCEPT !.pc = next, !.inSave = (next # "idle"),
                                         !.saved = (next = "idle"),
                                         !.pre = IF next = "idle" THEN EmptyDisk ELSE @,
                                         !.post = IF next = "idle" THEN EmptyDisk ELSE @]
    /\ UNCHANGED vs
    /\ UnchangedButPersist

\* the process dies: its memory is gone, the directory stays as it is
PersistCrash ==
    /\ persist.pc # "crashed"
    /\ persist' = [Forget(persist) EXCEPT !.pc = "crashed", !.saved = FALSE]
    /\ vs' = EmptyVs
    /\ UNCHANGED disk
    /\ UnchangedButPersist

\* the next process builds its VectorStore(index_path, dimension)
PersistRestart ==
    /\ persist.pc = "crashed"
    /\ \E outcome \in LoadOutcomes :
          /\ vs' = VectorStoreInit(disk, outcome)
          /\ persist' = [persist EXCEPT !.pc = "idle", !.inSave = FALSE,
                                        !.pre = EmptyDisk, !.post = EmptyDisk,
                                        !.lastLoad = LoadRecord(disk, outcome)]
    /\ UNCHANGED disk
    /\ UnchangedButPersist

\* VectorStore(index_path, dimension) on the same path, beside the first one
PersistFresh ==
    /\ persist.pc = "idle"
    /\ \E outcome \in LoadOutcomes :
          persist' = [persist EXCEPT !.fresh = VectorStoreInit(disk, outcome),
                                     !.constructed = TRUE,
                                     !.lastLoad = LoadRecord(disk, outcome)]
    /\ UNCHANGED <<vs, disk>>
    /\ UnchangedButPersist

NextPersist ==
    \/ PersistAdd
    \/ PersistSaveCall
    \/ PersistSaveStep
    \/ PersistCrash
    \/ PersistRestart
    \/ PersistFresh

SpecPersist == InitPersist /\ [][NextPersist]_vars

\* C11: when the process dies during save(), index.faiss and metadata.pkl are
\* either both as they were when save() began or both as save() writes them.
C11_CrashConsistent ==
    persist.pc = "crashed" /\ persist.inSave
        => disk = persist.pre \/ disk = persist.post

\* C12: a load() that finds a file missing, or whose reads fail, leaves the
\* instance empty: no rows, no metadata, no id map.
C12_LoadFailureEmpty ==
    persist.lastLoad.called
    /\ (persist.lastLoad.missing \/ persist.lastLoad.failure # "ok")
        => /\ persist.lastLoad.result.index = <<>>
           /\ persist.lastLoad.result.metadata = <<>>
           /\ persist.lastLoad.result.id_to_index = {}

\* the rows had been read when the metadata read failed
C12_Witness ==
    /\ persist.lastLoad.called
    /\ persist.lastLoad.failure = "fail_metadata"
    /\ disk.index_file.state = "whole"
    /\ disk.index_file.rows # <<>>
    /\ persist.lastLoad.result = initialize_index(EmptyVs)

\* C13: a VectorStore constructed on the path after save() returned reports
\* the stats of the saving instance and answers every query as it does.
C13_RoundTrip ==
    persist.constructed /\ persist.saved /\ persist.lastLoad.failure = "ok"
        => /\ get_stats(persist.fresh) = get_stats(vs)
           /\ \A q \in IndexQueries, top_k \in 1..MaxTopK :
                 search(persist.fresh, q, top_k) = search(vs, q, top_k)

\* two rows were saved and the second instance finds them in the same order
C13_Witness ==
    /\ persist.constructed
    /\ persist.saved
    /\ persist.lastLoad.failure = "ok"
    /\ Len(vs.metadata) = 2
    /\ Len(search(persist.fresh, Vec(1, 2), 2)) = 2
    /\ search(persist.fresh, Vec(1, 2), 2)[1].chunk # search(persist.fresh, Vec(1, 2), 2)[2].chunk

\* C36: load() succeeds only on a mutually consistent pair of files.  When
\* both files are there and are read without error but index.faiss holds
\* another number of rows than metadata.pkl holds entries, the instance is
\* left empty.
C36_InconsistentPairRejected ==
    ( /\ persist.lastLoad.called
      /\ ~persist.lastLoad.missing
      /\ persist.lastLoad.failure = "ok"
      /\ Len(disk.index_file.rows) # Len(disk.metadata_file.metadata) )
        => /\ persist.lastLoad.result.index = <<>>
           /\ persist.lastLoad.result.metadata = <<>>
           /\ persist.lastLoad.result.id_to_index = {}

-----------------------------------------------------------------------------
(* SpecServe: the process serving requests.  Its VectorStore singleton is   *)
(* written by the ingestion tasks (add_embeddings and save(), with no await *)
(* between them) and read by the /ask handler, which runs between the       *)
(* steps of the tasks.                                                      *)

InitServe ==
    /\ vs = VectorStoreInit(EmptyDisk, "ok")
    /\ disk = EmptyDisk
    /\ lastSearch = NoSearch
    /\ crawler = [c \in Jobs |-> IdleCrawler]
    /\ RestIdle

\* _process_ingestion lines 171-172: add_embeddings, then save(), which
\* raises when a write fails
ServeAddSave ==
    /\ \E b \in IndexBatches, outcome \in SaveOutcomes :
          /\ Len(vs.metadata) + Len(b) <= MaxIndexSize
          /\ LET added == add_embeddings(vs, [i \in 1..Len(b) |-> b[i][1]],
                                             [i \in 1..Len(b) |-> b[i][2]])
             IN  /\ vs' = added
                 /\ disk' = save(added, disk, outcome)
    /\ lastSearch' = NoSearch
    /\ UNCHANGED <<crawler, jobs, web_pages, content_chunks, callerPc, task,
                    persist, proc, gen, norm, fetch>>

\* ask_question once the query embedding is there: the stats test of lines
\* 40-46 has passed, vector_store.search(query_embedding, top_k) (line 54)
AskSearch ==
    /\ get_stats(vs).total_chunks # 0
    /\ \E q \in IndexQueries, top_k \in 1..MaxTopK :
          lastSearch' = [called |-> TRUE, top_k |-> top_k,
                         count |-> Len(vs.metadata), ntotal |-> Len(vs.index),
                         initialized |-> vs.initialized,
                         result |-> search(vs, q, top_k)]
    /\ UNCHANGED <<vs, disk>>
    /\ UNCHANGED <<crawler, jobs, web_pages, content_chunks, callerPc, task,
                    persist, proc, gen, norm, fetch>>

NextServe == ServeAddSave \/ AskSearch

SpecServe == InitServe /\ [][NextServe]_vars

\* C37: search returns only entries of the last successfully saved index
\* state: the chunk of every result is in the metadata that the last save()
\* to return normally wrote (when no save() has, search returns nothing).
C37_SearchSeesSavedOnly ==
    (lastSearch.called /\ disk.metadata_file.state # "cut") =>
        \A i \in 1..Len(lastSearch.result) :
            \E k \in 1..Len(disk.metadata_file.metadata) :
                disk.metadata_file.metadata[k] = lastSearch.result[i].chunk

-----------------------------------------------------------------------------
(* SpecChunk: one ContentProcessor(chunk_size, chunk_overlap,                *)
(* min_chunk_length) and a text, for every configuration and every text     *)
(* within the bounds, and one call on it: chunk_text(text, url, title) or   *)
(* process_page(page_data).                                                 *)

ChunkWords == { Word(c, p) : c \in {2, 5}, p \in BOOLEAN }

\* " ".join(f"word{i}" for i in range(100)) of test_chunk_text
WordBlock == [i \in 1..100 |-> Word(IF i <= 10 THEN 5 ELSE 6, FALSE)]

\* ContentProcessor(chunk_size=50, chunk_overlap=10) of test_chunk_text
TestConfig == ProcessorConfig(50, 10, DefaultMinChunkLength)

ChunkTexts == SeqsUpTo(ChunkWords, MaxWords) \cup {WordBlock}

ChunkConfigs ==
    { ProcessorConfig(cs, co, ml) :
        cs \in 1..MaxChunkSize, co \in 0..(MaxChunkSize - 1), ml \in {0, 4} }
    \cup {TestConfig}

PageBodies == 1..4

InitChunk ==
    /\ \E cfg \in ChunkConfigs, text \in ChunkTexts :
          proc = [called |-> "none", cfg |-> cfg, text |-> text, url |-> UA,
                  body |-> 0, chunks |-> <<>>, skipped |-> FALSE]
    /\ crawler = [c \in Jobs |-> IdleCrawler]
    /\ jobs = [j \in Jobs |-> NoJobDoc]
    /\ web_pages = {}
    /\ content_chunks = {}
    /\ callerPc = [j \in Jobs |-> "idle"]
    /\ task = [j \in Jobs |-> IdleTask]
    /\ vs = EmptyVs
    /\ disk = EmptyDisk
    /\ lastSearch = NoSearch
    /\ persist = IdlePersist
    /\ gen = NoGen
    /\ norm = NoNorm
    /\ fetch = NoFetch

UnchangedButProc ==
    UNCHANGED <<crawler, jobs, web_pages, content_chunks, callerPc, task, vs, disk,
                lastSearch, persist, gen, norm, fetch>>

\* processor.chunk_text(text, url, title)
ProcChunkText ==
    /\ proc.called = "none"
    /\ proc' = [proc EXCEPT !.called = "chunk_text", !.body = 0, !.skipped = FALSE,
                            !.chunks = chunk_text(proc.cfg,
                                                  _split_into_sentences(proc.text),
                                                  proc.url)]
    /\ UnchangedButProc

\* processor.process_page(page_data)
ProcProcessPage ==
    /\ proc.called = "none"
    /\ \E body \in PageBodies :
          LET page_data == PageData({}, proc.url, Html(body, <<>>))
              processed == process_page(proc.cfg, page_data)
          IN  proc' = [proc EXCEPT !.called = "process_page", !.body = body,
                                   !.skipped = processed.skipped,
                                   !.chunks = processed.chunks]
    /\ UnchangedButProc

NextChunk == ProcChunkText \/ ProcProcessPage

SpecChunk == InitChunk /\ [][NextChunk]_vars

\* C14: with chunk_overlap > 0, any two consecutive chunks chunk_text emits
\* share at least one word.
C14_ConsecutiveChunksOverlap ==
    proc.called = "chunk_text" /\ proc.cfg.chunk_overlap > 0 /\ Len(proc.chunks) >= 2
        => \A i \in 1..(Len(proc.chunks) - 1) :
              WordSet(proc.chunks[i]) \cap WordSet(proc.chunks[i + 1]) # {}

\* C15: the block word0 .. word99 without sentence punctuation, chunked with
\* chunk_size 50 and chunk_overlap 10, gives at least two chunks of at most
\* 50 words each, consecutive ones sharing a word.
C15_WordBlockChunks ==
    proc.called = "chunk_text" /\ proc.text = WordBlock /\ proc.cfg = TestConfig
        => /\ Len(proc.chunks) >= 2
           /\ \A i \in 1..Len(proc.chunks) : proc.chunks[i].word_count <= 50
           /\ \A i \in 1..(Len(proc.chunks) - 1) :
                 WordSet(proc.chunks[i]) \cap WordSet(proc.chunks[i + 1]) # {}

\* C16: every chunk chunk_text emits has at least min_chunk_length characters.
C16_NoShortChunk ==
    proc.called = "chunk_text"
        => \A i \in 1..Len(proc.chunks) :
              JoinedLength(proc.chunks[i].content) >= proc.cfg.min_chunk_length

\* a text with a sentence shorter than min_chunk_length gave a chunk all the same
C16_Witness ==
    /\ proc.called = "chunk_text"
    /\ proc.cfg.min_chunk_length > 0
    /\ \E i \in 1..Len(_split_into_sentences(proc.text)) :
          _split_into_sentences(proc.text)[i].chars < proc.cfg.min_chunk_length
    /\ Len(proc.chunks) >= 1
    /\ SumWords(proc.chunks[1].content) < Len(proc.text)

\* C17: the chunks chunk_text emits carry the indices 0, 1, ..., n-1 in order
\* and the ids computed from the url and those indices, whatever was dropped.
C17_ChunkIdsFromIndices ==
    proc.called = "chunk_text"
        => \A i \in 1..Len(proc.chunks) :
              /\ proc.chunks[i].chunk_index = i - 1
              /\ proc.chunks[i].id = _generate_chunk_id(proc.url, i - 1)

\* two chunks were emitted and a token between them is in neither: the chunk
\* that held it was dropped
C17_Witness ==
    /\ proc.called = "chunk_text"
    /\ Len(proc.chunks) = 2
    /\ \E t \in 0..(Len(proc.text) - 1) :
          /\ t \notin WordSet(proc.chunks[1]) \cup WordSet(proc.chunks[2])
          /\ \E a \in WordSet(proc.chunks[1]) : a < t
          /\ \E b \in WordSet(proc.chunks[2]) : t < b

\* C18: process_page returns None for a page whose cleaned text has fewer
\* than 50 words, and a record only for a page with at least 50 words.
C18_ShortPageSkipped ==
    proc.called = "process_page"
        => LET words == SumWords(clean_html(Html(proc.body, <<>>)))
           IN  /\ words < 50 => proc.skipped /\ proc.chunks = <<>>
               /\ ~proc.skipped => words >= 50

\* a page of 49 words was skipped
C18_Witness ==
    /\ proc.called = "process_page"
    /\ SumWords(clean_html(Html(proc.body, <<>>))) = 49
    /\ proc.skipped

\* C40: when chunk_overlap < chunk_size and no sentence of the text has more
\* than chunk_size - chunk_overlap words, no chunk chunk_text emits has more
\* than chunk_size words.
C40_ChunkWithinSize ==
    LET sentences == _split_into_sentences(proc.text)
        cfg == proc.cfg
    IN  ( /\ proc.called = "chunk_text"
          /\ cfg.chunk_overlap < cfg.chunk_size
          /\ \A i \in 1..Len(sentences) :
                sentences[i].words <= cfg.chunk_size - cfg.chunk_overlap )
            => \A i \in 1..Len(proc.chunks) :
                  /\ proc.chunks[i].word_count <= cfg.chunk_size
                  /\ SumWords(proc.chunks[i].content) <= cfg.chunk_size

\* a chunk of exactly chunk_size words that starts with the overlap kept from
\* the chunk before it, in a text whose longest sentence has exactly
\* chunk_size - chunk_overlap words
C40_Witness ==
    LET sentences == _split_into_sentences(proc.text)
        cfg == proc.cfg
    IN  /\ proc.called = "chunk_text"
        /\ cfg.chunk_overlap > 0
        /\ cfg.chunk_overlap < cfg.chunk_size
        /\ \A i \in 1..Len(sentences) :
              sentences[i].words <= cfg.chunk_size - cfg.chunk_overlap
        /\ \E i \in 1..Len(sentences) :
              sentences[i].words = cfg.chunk_size - cfg.chunk_overlap
        /\ Len(proc.chunks) >= 2
        /\ proc.chunks[2].word_count = cfg.chunk_size
        /\ Len(proc.chunks[2].content) >= 2
        /\ proc.chunks[2].content[1] = proc.chunks[1].content[Len(proc.chunks[1].content)]

-----------------------------------------------------------------------------
(* SpecAnswer: one AnswerGenerator(provider, api_key) and one                *)
(* generate_answer(question, retrieved_chunks, min_confidence) call on it,  *)
(* for every ranked list and every provider response within the bounds.    *)

\* the chunk ranked i-th: 10 words when first, 30 words otherwise
AnswerChunk(i) ==
    IF i = 1 THEN Chunk(UA, 0, <<Sentence(0, 10, 59)>>, 10)
    ELSE Chunk(UB, i - 2, <<Sentence(0, 30, 179)>>, 30)

AnswerScores == {-100, 50, 100}

RetrievedLists ==
    UNION { { [i \in 1..n |-> [chunk |-> AnswerChunk(i), score |-> sc[i]]] :
              sc \in [1..n -> AnswerScores] } : n \in 0..MaxRetrieved }

MinConfidences == {0, 70}

AnswerOutcomes ==
    {ProviderRaises, ProviderNone}
    \cup { AnswerText(m, w, u) : m \in SeqsUpTo(0..(MaxRetrieved + 1), MaxMarkers),
                                 w \in {0, 50, 120}, u \in BOOLEAN }

\* no request was sent
OutcomeUnused == [kind |-> "unused"]

InitAnswer ==
    /\ \E provider \in {"openai", "gemini"}, client \in BOOLEAN,
          retrieved_chunks \in RetrievedLists, min_confidence \in MinConfidences :
          gen = [called |-> FALSE, provider |-> provider, client |-> client,
                 retrieved_chunks |-> retrieved_chunks,
                 min_confidence |-> min_confidence,
                 outcome |-> OutcomeUnused, result |-> AnswerRaised(0)]
    /\ crawler = [c \in Jobs |-> IdleCrawler]
    /\ jobs = [j \in Jobs |-> NoJobDoc]
    /\ web_pages = {}
    /\ content_chunks = {}
    /\ callerPc = [j \in Jobs |-> "idle"]
    /\ task = [j \in Jobs |-> IdleTask]
    /\ vs = EmptyVs
    /\ disk = EmptyDisk
    /\ lastSearch = NoSearch
    /\ persist = IdlePersist
    /\ proc = NoProc
    /\ norm = NoNorm
    /\ fetch = NoFetch

\* await answer_generator.generate_answer(question, retrieved_chunks, min_confidence)
GenAnswer ==
    /\ ~gen.called
    /\ \E outcome \in AnswerOutcomes :
          LET result == generate_answer(gen.provider, gen.client, gen.retrieved_chunks,
                                        gen.min_confidence, outcome)
          IN  gen' = [gen EXCEPT !.called = TRUE,
                                 !.outcome = IF result.provider_calls > 0
                                                THEN outcome ELSE OutcomeUnused,
                                 !.result = result]
    /\ UNCHANGED <<crawler, jobs, web_pages, content_chunks, callerPc, task, vs, disk,
                   lastSearch, persist, proc, norm, fetch>>

NextAnswer == GenAnswer

SpecAnswer == InitAnswer /\ [][NextAnswer]_vars

\* C19: generate_answer on an empty list of retrieved chunks returns
\* confidence 0.0 and no citations and sends nothing to the provider.
C19_EmptyChunksShortCircuit ==
    gen.called /\ gen.retrieved_chunks = <<>>
        => /\ ~gen.result.raised
           /\ gen.result.confidence = 0
           /\ gen.result.citations = <<>>
           /\ gen.result.provider_calls = 0

\* a generator that would call its provider answered an empty list
C19_Witness ==
    /\ gen.called
    /\ gen.retrieved_chunks = <<>>
    /\ CallsProvider(gen.provider, gen.client)
    /\ gen.result.answer = InsufficientAnswer

\* C20: when the provider call raises, generate_answer returns the fixed
\* error answer with confidence 0.0 and no citations; it does not raise.
C20_ProviderErrorContained ==
    gen.called /\ gen.outcome.kind = "raise"
        => /\ ~gen.result.raised
           /\ gen.result.answer = ErrorAnswer
           /\ gen.result.confidence = 0
           /\ gen.result.citations = <<>>

\* the provider raised on a request built from two retrieved chunks
C20_Witness ==
    /\ gen.called
    /\ gen.outcome.kind = "raise"
    /\ Len(gen.retrieved_chunks) = 2
    /\ gen.result.provider_calls = 1
    /\ gen.result.answer = ErrorAnswer

\* the positions of the markers that are in range and not seen before
FirstInRange(markers, n) ==
    { p \in 1..Len(markers) :
        /\ markers[p] \in 1..n
        /\ \A q \in 1..(p - 1) : markers[q] # markers[p] }

\* C21: the citations are one per distinct marker number N in 1..len(chunks),
\* in order of first occurrence, each with the chunk_id, url and score of
\* the chunk ranked N; other markers and repeated ones give none.
C21_CitationsFromMarkers ==
    gen.called /\ ~gen.result.raised /\ gen.result.answer.kind = "text"
        => LET markers == gen.result.answer.markers
               chunks == gen.retrieved_chunks
               firsts == FirstInRange(markers, Len(chunks))
               citations == gen.result.citations
           IN  /\ Len(citations) = Cardinality(firsts)
               /\ \A p \in firsts :
                     LET i == Cardinality({ q \in firsts : q <= p })
                         ranked == chunks[markers[p]]
                     IN  /\ citations[i].chunk_id = ranked.chunk.id
                         /\ citations[i].url = ranked.chunk.url
                         /\ citations[i].relevance_score = ranked.score

\* the text cites source 2 and then source 1: two citations in that order
C21_Witness ==
    /\ gen.called
    /\ ~gen.result.raised
    /\ gen.result.answer.kind = "text"
    /\ gen.result.answer.markers = <<2, 1>>
    /\ Len(gen.retrieved_chunks) = 2
    /\ Len(gen.result.citations) = 2
    /\ gen.result.citations[1].chunk_id = gen.retrieved_chunks[2].chunk.id

\* C22: the confidence generate_answer returns lies in [0, 1].
C22_ConfidenceInUnitInterval ==
    gen.called /\ ~gen.result.raised
        => 0 <= gen.result.confidence /\ gen.result.confidence <= 100

\* C23: missing_information is None whenever confidence >= min_confidence
\* and a non-empty list whenever confidence < min_confidence, in every
\* result, the empty-chunks and provider-error ones included.
C23_MissingIffBelowThreshold ==
    gen.called /\ ~gen.result.raised
        => /\ gen.result.confidence >= gen.min_confidence
                => ~gen.result.missing_information.present
           /\ gen.result.confidence < gen.min_confidence
                => /\ gen.result.missing_information.present
                   /\ gen.result.missing_information.items # <<>>

-----------------------------------------------------------------------------
(* Spec: IngestionService. start_ingestion inserts the job document and    *)
(* creates the background task; _process_ingestion runs as that task.  One  *)
(* action is one resumption of a coroutine: the code from one await to the  *)
(* next; add_embeddings and save, which no await separates, are two steps   *)
(* that the event loop runs back to back (Scheduled).                       *)
(* Every store call either takes effect and returns or raises and           *)
(* leaves the store as it was; content_chunks.insert_many raises on an _id  *)
(* that is already stored.  fetch_page and embed_texts catch their own      *)
(* failures.                                                                *)

\* the requests start_ingestion is called with: the one-page crawl of a
\* single seed, and a two-seed crawl that follows links one level deep
JobRequests ==
    {[urls |-> <<UA>>, max_pages |-> 1, max_depth |-> 0],
     [urls |-> <<UASlash, UB>>, max_pages |-> 2, max_depth |-> 1]}
JobHtmls == {Html(1, <<>>), Html(2, <<UB>>), Html(3, <<>>)}
JobOutcomes == {FetchFailed, FetchNonHtml} \cup { FetchOk(h) : h \in JobHtmls }
JobConfig == ProcessorConfig(DefaultChunkSize, DefaultChunkOverlap, DefaultMinChunkLength)

\* the provider's embedding of a chunk's text
ProviderEmbedding(chunk) == Vec(chunk.chunk_index, 2)

\* EmbeddingsService.embed_texts: one provider call per batch of 100 texts;
\* a failed call yields zero vectors for the batch
embed_texts(chunks, provider_ok) ==
    [i \in 1..Len(chunks) |-> IF provider_ok THEN ProviderEmbedding(chunks[i]) ELSE ZeroVec]

\* start_ingestion's job_data (lines 43-57)
JobDoc(urls, allow, mp, md) ==
    [status |-> "pending", urls |-> urls, domain_allowlist |-> allow,
     max_pages |-> mp, max_depth |-> md, pages_processed |-> 0, total_pages |-> mp,
     progress |-> <<0, 1>>, error_message |-> FALSE, completed_at |-> FALSE,
     updated_at |-> 0]

\* progress_callback's $set (lines 98-109)
ProgressUpdate(doc, processed, total) ==
    [doc EXCEPT !.pages_processed = processed,
                !.total_pages = total,
                !.progress = IF total > 0 THEN <<processed, total>> ELSE <<0, 1>>,
                !.updated_at = @ + 1]

\* the $set of lines 82-85
RunningUpdate(doc) == [doc EXCEPT !.status = "running", !.updated_at = @ + 1]

\* the $set of lines 181-191
CompletedUpdate(doc) ==
    [doc EXCEPT !.status = "completed", !.completed_at = TRUE,
                !.progress = <<1, 1>>, !.updated_at = @ + 1]

\* the $set of lines 197-206
FailedUpdate(doc) ==
    [doc EXCEPT !.status = "failed", !.error_message = TRUE, !.updated_at = @ + 1]

\* progress is 1.0
IsOne(progress) == progress[1] = progress[2]

\* an embedding step that runs whether or not there are chunks
HasChunksAlways(all_chunks) == TRUE

\* if all_chunks: (line 164)
HasChunks(all_chunks) == all_chunks # <<>>

\* a pipeline that embeds as soon as some page has given chunks
PcAfterPagePipelined(t) ==
    IF HasChunks(t.all_chunks) THEN "embed"
    ELSE IF t.next <= Len(t.pages) THEN "process"
    ELSE "mark_completed"

\* where the task continues once the page loop is over (lines 124, 164, 181)
PcAfterPage(t) ==
    IF t.next <= Len(t.pages) THEN "process"
    ELSE IF HasChunks(t.all_chunks) THEN "embed"
    ELSE "mark_completed"

\* a task created before the insert has been awaited
TaskPcCreatedEarly == "find_one"

\* the task does not exist until create_task (line 69)
TaskPcBeforeCreate == "none"

\* a handler written as finally: it runs after the completed update too
PcAfterCompletedFinally == "except"

\* after the completed update the try block is left (lines 193-195)
PcAfterCompleted == "done"

\* the task has run: some step of _process_ingestion has executed
Stepped(t) == [t EXCEPT !.started = TRUE]

\* an exception inside the try block reaches the handler of line 195
Raised(t, at) ==
    [Stepped(t) EXCEPT !.pc = "except",
                       !.raisedAt = IF @ = "none" THEN at ELSE @]

\* an exception outside the try block leaves the coroutine
Escaped(t, at) ==
    [Stepped(t) EXCEPT !.pc = "done", !.exc = "escaped",
                       !.raisedAt = IF @ = "none" THEN at ELSE @]

\* the crawler object once crawl has returned: nothing reads it again
Dropped == [IdleCrawler EXCEPT !.pc = "returned"]

Init ==
    /\ crawler = [c \in Jobs |-> IdleCrawler]
    /\ RestIdle
    /\ vs = EmptyVs
    /\ disk = EmptyDisk
    /\ lastSearch = NoSearch

\* an await between add_embeddings and save: the event loop may switch there
RunsToAwaitNever(t) == FALSE

\* the task is between two statements with no await between them: between
\* add_embeddings and save (lines 171-172)
RunsToAwait(t) == t.pc = "save"

\* the event loop runs one coroutine at a time and switches only at an await
Scheduled(j) == \A k \in Jobs \ {j} : ~RunsToAwait(task[k])

\* start_ingestion up to the return of insert_one (lines 40-66)
StartInsert(j) ==
    /\ Scheduled(j)
    /\ callerPc[j] = "idle"
    /\ \E r \in JobRequests, ok \in BOOLEAN :
          IF ok
             THEN /\ jobs' = [jobs EXCEPT ![j] = JobDoc(r.urls, {}, r.max_pages, r.max_depth)]
                  /\ callerPc' = [callerPc EXCEPT ![j] = "inserted"]
                  /\ task' = [task EXCEPT ![j].pc = TaskPcBeforeCreate]
             ELSE /\ callerPc' = [callerPc EXCEPT ![j] = "raised"]
                  /\ UNCHANGED <<jobs, task>>
    /\ UNCHANGED <<crawler, web_pages, content_chunks, vs, disk, lastSearch, persist, proc, gen, norm, fetch>>

\* asyncio.create_task(...) and return job_id (lines 68-71)
StartReturn(j) ==
    /\ Scheduled(j)
    /\ callerPc[j] = "inserted"
    /\ callerPc' = [callerPc EXCEPT ![j] = "returned"]
    /\ task' = [task EXCEPT ![j].pc = IF @ = "none" THEN "find_one" ELSE @]
    /\ UNCHANGED <<crawler, jobs, web_pages, content_chunks, vs, disk, lastSearch, persist, proc, gen, norm, fetch>>

\* job = await find_one (lines 75-78), outside the try block
TaskFindOne(j) ==
    /\ Scheduled(j)
    /\ task[j].pc = "find_one"
    /\ \E ok \in BOOLEAN :
          task' = [task EXCEPT ![j] =
                     IF ~ok THEN Escaped(@, "find_one")
                     ELSE IF jobs[j].status = "absent" THEN [Stepped(@) EXCEPT !.pc = "done"]
                     ELSE [Stepped(@) EXCEPT !.pc = "set_running"]]
    /\ UNCHANGED <<crawler, jobs, web_pages, content_chunks, callerPc, vs, disk, lastSearch, persist, proc, gen, norm, fetch>>

\* the running update, then WebCrawler(...) and the call of crawl (lines 80-111)
TaskSetRunning(j) ==
    /\ Scheduled(j)
    /\ task[j].pc = "set_running"
    /\ \E ok \in BOOLEAN :
          IF ok
             THEN /\ jobs' = [jobs EXCEPT ![j] = RunningUpdate(@)]
                  /\ crawler' = [crawler EXCEPT ![j] =
                        CrawlEnter(NewCrawler(jobs[j].domain_allowlist, jobs[j].max_pages,
                                              jobs[j].max_depth),
                                   jobs[j].urls, TRUE)]
                  /\ task' = [task EXCEPT ![j] = [Stepped(@) EXCEPT !.pc = "crawl"]]
             ELSE /\ task' = [task EXCEPT ![j] = Raised(@, "set_running")]
                  /\ UNCHANGED <<jobs, crawler>>
    /\ UNCHANGED <<web_pages, content_chunks, callerPc, vs, disk, lastSearch, persist, proc, gen, norm, fetch>>

\* crawl between two awaits; at its return pages is bound (line 111)
TaskCrawlStep(j) ==
    /\ Scheduled(j)
    /\ task[j].pc = "crawl"
    /\ crawler[j].pc = "loop"
    /\ LET cr == CrawlDequeue(crawler[j])
       IN  /\ crawler' = [crawler EXCEPT ![j] = IF cr.pc = "returned" THEN Dropped ELSE cr]
           /\ task' = [task EXCEPT ![j] =
                 IF cr.pc = "returned"
                    THEN LET t == [Stepped(@) EXCEPT !.pages = cr.results, !.next = 1]
                         IN  [t EXCEPT !.pc = PcAfterPage(t)]
                    ELSE Stepped(@)]
    /\ UNCHANGED <<jobs, web_pages, content_chunks, callerPc, vs, disk, lastSearch, persist, proc, gen, norm, fetch>>

\* fetch_page returns inside crawl
TaskCrawlFetch(j) ==
    /\ Scheduled(j)
    /\ task[j].pc = "crawl"
    /\ crawler[j].pc = "fetch"
    /\ \E outcome \in JobOutcomes :
          crawler' = [crawler EXCEPT ![j] = CrawlFetched(@, outcome)]
    /\ task' = [task EXCEPT ![j] = Stepped(@)]
    /\ UNCHANGED <<jobs, web_pages, content_chunks, callerPc, vs, disk, lastSearch, persist, proc, gen, norm, fetch>>

\* await progress_callback(...) inside crawl (lines 98-109, crawler.py 158-159)
TaskCrawlCallback(j) ==
    /\ Scheduled(j)
    /\ task[j].pc = "crawl"
    /\ crawler[j].pc = "callback"
    /\ \E ok \in BOOLEAN :
          IF ok
             THEN /\ jobs' = [jobs EXCEPT ![j] =
                        ProgressUpdate(@, CallbackArgs(crawler[j])[1], CallbackArgs(crawler[j])[2])]
                  /\ crawler' = [crawler EXCEPT ![j].pc = "loop"]
                  /\ task' = [task EXCEPT ![j] = Stepped(@)]
             ELSE /\ crawler' = [crawler EXCEPT ![j].pc = "raised"]
                  /\ task' = [task EXCEPT ![j] = Raised(@, "progress_callback")]
                  /\ UNCHANGED jobs
    /\ UNCHANGED <<web_pages, content_chunks, callerPc, vs, disk, lastSearch, persist, proc, gen, norm, fetch>>

\* one page of the loop of lines 124-159: process_page, web_pages.insert_one,
\* the chunk documents built and collected into all_chunks
TaskProcessPage(j) ==
    /\ Scheduled(j)
    /\ task[j].pc = "process"
    /\ LET page_data == task[j].pages[task[j].next]
           processed == process_page(JobConfig, page_data)
       IN  IF processed.skipped
              THEN /\ task' = [task EXCEPT ![j] =
                         LET t == [Stepped(@) EXCEPT !.next = @ + 1]
                         IN  [t EXCEPT !.pc = PcAfterPage(t)]]
                   /\ UNCHANGED web_pages
              ELSE \E ok \in BOOLEAN :
                     IF ok
                        THEN /\ web_pages' = web_pages \cup
                                   {[job_id |-> j, url |-> processed.url,
                                     chunk_count |-> Len(processed.chunks),
                                     is_indexed |-> FALSE]}
                             /\ task' = [task EXCEPT ![j] =
                                   LET t == [Stepped(@) EXCEPT
                                               !.all_chunks = @ \o processed.chunks]
                                   IN  IF processed.chunks # <<>>
                                          THEN [t EXCEPT !.pc = "insert_chunks"]
                                          ELSE LET u == [t EXCEPT !.next = @ + 1]
                                               IN  [u EXCEPT !.pc = PcAfterPage(u)]]
                        ELSE /\ task' = [task EXCEPT ![j] = Raised(@, "insert_page")]
                             /\ UNCHANGED web_pages
    /\ UNCHANGED <<crawler, jobs, content_chunks, callerPc, vs, disk, lastSearch, persist, proc, gen, norm, fetch>>

RECURSIVE InsertOrdered(_, _)
\* insert_many, ordered: documents are inserted up to the first duplicate _id
InsertOrdered(stored, ids) ==
    IF ids = <<>> \/ Head(ids) \in stored THEN stored
    ELSE InsertOrdered(stored \cup {Head(ids)}, Tail(ids))

\* await content_chunks.insert_many(chunks_to_insert) (lines 158-159)
TaskInsertChunks(j) ==
    /\ Scheduled(j)
    /\ task[j].pc = "insert_chunks"
    /\ LET chunks == process_page(JobConfig, task[j].pages[task[j].next]).chunks
           ids == [i \in 1..Len(chunks) |-> chunks[i].id]
       IN  \E ok \in BOOLEAN :
             IF ok /\ Range(ids) \cap content_chunks = {}
                THEN /\ content_chunks' = content_chunks \cup Range(ids)
                     /\ task' = [task EXCEPT ![j] =
                           LET t == [Stepped(@) EXCEPT !.next = @ + 1]
                           IN  [t EXCEPT !.pc = PcAfterPage(t)]]
                ELSE /\ content_chunks' = IF ok THEN InsertOrdered(content_chunks, ids)
                                                ELSE content_chunks
                     /\ task' = [task EXCEPT ![j] = Raised(@, "insert_chunks")]
    /\ UNCHANGED <<crawler, jobs, web_pages, callerPc, vs, disk, lastSearch, persist, proc, gen, norm, fetch>>

\* embeddings = await embed_texts(chunk_texts) (lines 166-167)
TaskEmbed(j) ==
    /\ Scheduled(j)
    /\ task[j].pc = "embed"
    /\ \E provider_ok \in BOOLEAN :
          task' = [task EXCEPT ![j] =
                     [Stepped(@) EXCEPT
                        !.embeddings = embed_texts(task[j].all_chunks, provider_ok),
                        !.pc = "add"]]
    /\ UNCHANGED <<crawler, jobs, web_pages, content_chunks, callerPc, vs, disk, lastSearch, persist, proc, gen, norm, fetch>>

\* self.vector_store.add_embeddings(embeddings, all_chunks) (line 171)
TaskAdd(j) ==
    /\ Scheduled(j)
    /\ task[j].pc = "add"
    /\ vs' = add_embeddings(vs, task[j].embeddings, task[j].all_chunks)
    /\ task' = [task EXCEPT ![j] = [Stepped(@) EXCEPT !.adds = @ + 1, !.pc = "save"]]
    /\ UNCHANGED <<crawler, jobs, web_pages, content_chunks, callerPc, disk, lastSearch, persist, proc, gen, norm, fetch>>

\* self.vector_store.save() (line 172)
TaskSave(j) ==
    /\ Scheduled(j)
    /\ task[j].pc = "save"
    /\ \E outcome \in SaveOutcomes :
          /\ disk' = save(vs, disk, outcome)
          /\ task' = [task EXCEPT ![j] =
                LET t == [@ EXCEPT !.saves = @ + 1]
                IN  IF SaveRaises(outcome)
                       THEN Raised(t, "save")
                       ELSE [Stepped(t) EXCEPT !.savedOk = (outcome = "ok"),
                                               !.pc = "mark_indexed"]]
    /\ UNCHANGED <<crawler, jobs, web_pages, content_chunks, callerPc, vs, lastSearch, persist, proc, gen, norm, fetch>>

\* await web_pages.update_many({"job_id": job_id}, is_indexed) (lines 175-178)
TaskMarkIndexed(j) ==
    /\ Scheduled(j)
    /\ task[j].pc = "mark_indexed"
    /\ \E ok \in BOOLEAN :
          IF ok
             THEN /\ web_pages' = { IF w.job_id = j THEN [w EXCEPT !.is_indexed = TRUE] ELSE w
                                     : w \in web_pages }
                  /\ task' = [task EXCEPT ![j] = [Stepped(@) EXCEPT !.pc = "mark_completed"]]
             ELSE /\ task' = [task EXCEPT ![j] = Raised(@, "mark_indexed")]
                  /\ UNCHANGED web_pages
    /\ UNCHANGED <<crawler, jobs, content_chunks, callerPc, vs, disk, lastSearch, persist, proc, gen, norm, fetch>>

\* the completed update (lines 181-193)
TaskMarkCompleted(j) ==
    /\ Scheduled(j)
    /\ task[j].pc = "mark_completed"
    /\ \E ok \in BOOLEAN :
          IF ok
             THEN /\ jobs' = [jobs EXCEPT ![j] = CompletedUpdate(@)]
                  /\ task' = [task EXCEPT ![j] = [Stepped(@) EXCEPT !.pc = PcAfterCompleted]]
             ELSE /\ task' = [task EXCEPT ![j] = Raised(@, "mark_completed")]
                  /\ UNCHANGED jobs
    /\ UNCHANGED <<crawler, web_pages, content_chunks, callerPc, vs, disk, lastSearch, persist, proc, gen, norm, fetch>>

\* the handler of lines 195-206: the failed update, itself a store call
TaskExcept(j) ==
    /\ Scheduled(j)
    /\ task[j].pc = "except"
    /\ \E ok \in BOOLEAN :
          IF ok
             THEN /\ jobs' = [jobs EXCEPT ![j] = FailedUpdate(@)]
                  /\ task' = [task EXCEPT ![j] = [Stepped(@) EXCEPT !.pc = "done"]]
             ELSE /\ task' = [task EXCEPT ![j] = Escaped(@, "failed_update")]
                  /\ UNCHANGED jobs
    /\ UNCHANGED <<crawler, web_pages, content_chunks, callerPc, vs, disk, lastSearch, persist, proc, gen, norm, fetch>>

Next ==
    \E j \in Jobs :
        \/ StartInsert(j)
        \/ StartReturn(j)
        \/ TaskFindOne(j)
        \/ TaskSetRunning(j)
        \/ TaskCrawlStep(j)
        \/ TaskCrawlFetch(j)
        \/ TaskCrawlCallback(j)
        \/ TaskProcessPage(j)
        \/ TaskInsertChunks(j)
        \/ TaskEmbed(j)
        \/ TaskAdd(j)
        \/ TaskSave(j)
        \/ TaskMarkIndexed(j)
        \/ TaskMarkCompleted(j)
        \/ TaskExcept(j)

Spec == Init /\ [][Next]_vars

\* the status changes the lifecycle allows
AllowedTransitions ==
    {<<"absent", "pending">>, <<"pending", "running">>, <<"running", "completed">>,
     <<"pending", "failed">>, <<"running", "failed">>}

\* C4: a job's status changes only along pending -> running -> completed, or
\* to failed; once it is completed or failed no step changes the job document.
C4_TerminalStatus ==
    [][\A j \in Jobs :
         /\ jobs'[j].status # jobs[j].status
               => <<jobs[j].status, jobs'[j].status>> \in AllowedTransitions
         /\ jobs[j].status \in {"completed", "failed"} => jobs'[j] = jobs[j]]_vars

\* one run ended failed after reporting progress and another ended completed
C4_Witness ==
    \E j, k \in Jobs :
        /\ jobs[j].status = "failed" /\ task[j].pc = "done"
        /\ jobs[j].pages_processed >= 1
        /\ jobs[k].status = "completed" /\ task[k].pc = "done"

\* C5: while a job is completed, each chunk it produced is in the index, the
\* save() after its add returned normally, and its progress is 1.0.
C5_CompletedAfterIndexed ==
    \A j \in Jobs :
        jobs[j].status = "completed" =>
            /\ IsOne(jobs[j].progress)
            /\ \A i \in 1..Len(task[j].all_chunks) :
                  \E k \in 1..Len(vs.metadata) :
                      vs.metadata[k] = task[j].all_chunks[i] /\ k <= Len(vs.index)
            /\ (task[j].all_chunks # <<>> => task[j].adds = 1 /\ task[j].savedOk)

\* two jobs completed, each with its two chunks in the index
C5_Witness ==
    /\ \A j \in Jobs : jobs[j].status = "completed" /\ Len(task[j].all_chunks) = 2
    /\ Len(vs.metadata) = 4

\* C6: an exception at any point of a run ends with the job failed and
\* error_message set, and does not leave the background task.
C6_ExceptionEndsFailed ==
    \A j \in Jobs :
        task[j].pc = "done" /\ task[j].raisedAt # "none" =>
            /\ jobs[j].status = "failed"
            /\ jobs[j].error_message
            /\ task[j].exc # "escaped"

\* C7: when start_ingestion returns the job id, the job document is stored
\* with status pending and the background task has not run a step.
C7_ReturnsBeforeTaskRuns ==
    [][\A j \in Jobs :
         callerPc[j] # "returned" /\ callerPc'[j] = "returned" =>
            /\ jobs'[j].status = "pending"
            /\ ~task'[j].started
            /\ crawler'[j].pc = "idle"]_vars

\* a call has just returned, its task not yet run, while another job is crawling
C7_Witness ==
    \E j, k \in Jobs :
        /\ callerPc[j] = "returned" /\ task[j].pc = "find_one" /\ ~task[j].started
        /\ jobs[j].status = "pending"
        /\ jobs[k].status = "running" /\ crawler[k].pc = "fetch"

\* C8: a run without exception whose n crawled pages gave no chunk ends
\* completed with progress 1.0 and pages_processed = n, and never called
\* add_embeddings or save.
C8_EmptyIngestionCompletes ==
    \A j \in Jobs :
        task[j].pc = "done" /\ task[j].raisedAt = "none" /\ task[j].all_chunks = <<>> =>
            /\ jobs[j].status = "completed"
            /\ IsOne(jobs[j].progress)
            /\ jobs[j].pages_processed = Len(task[j].pages)
            /\ task[j].adds = 0 /\ task[j].saves = 0

\* two crawled pages, one under the word floor and one stored without chunks,
\* and the index never initialised
C8_Witness ==
    \E j \in Jobs :
        /\ task[j].pc = "done" /\ jobs[j].status = "completed"
        /\ Len(task[j].pages) = 2 /\ task[j].all_chunks = <<>>
        /\ jobs[j].pages_processed = 2
        /\ \E w \in web_pages : w.job_id = j /\ w.chunk_count = 0
        /\ \E i \in 1..2 : process_page(JobConfig, task[j].pages[i]).skipped
        /\ ~vs.initialized


\* the orders in which jobs may have added their batches
BatchOrders ==
    { q \in SeqsUpTo(Jobs, Cardinality(Jobs)) :
        \A a, b \in 1..Len(q) : a # b => q[a] # q[b] }

RECURSIVE Batches(_)
\* the batches of the jobs of q, one after the other
Batches(q) == IF q = <<>> THEN <<>> ELSE task[Head(q)].all_chunks \o Batches(Tail(q))

\* the persisted metadata holds whole batches only, each with its index rows
PersistedWhole ==
    disk.metadata_file.state = "whole" =>
        \E q \in BatchOrders :
            /\ \A i \in 1..Len(q) : task[q[i]].adds = 1
            /\ disk.metadata_file.metadata = Batches(q)
            /\ Len(disk.index_file.rows) = Len(Batches(q))

C27_StagesSequential ==
    \A j \in Jobs :
        LET t == task[j]
        IN  /\ (t.pc \in {"process", "insert_chunks"} \/ t.next > 1 \/ t.all_chunks # <<>>)
                  => crawler[j].pc = "returned"
            /\ (t.pc \in {"embed", "add", "save", "mark_indexed"} \/ t.embeddings # <<>>)
                  => /\ crawler[j].pc = "returned"
                     /\ t.next = Len(t.pages) + 1
            /\ (t.pc \in {"add", "save", "mark_indexed"} \/ t.adds > 0)
                  => /\ t.all_chunks # <<>>
                     /\ Len(t.embeddings) = Len(t.all_chunks)

\* a job that crawled two pages has segmented both, holds an embedding for
\* each of its chunks and has just called add_embeddings
C27_Witness ==
    \E j \in Jobs :
        /\ task[j].pc = "save"
        /\ Len(task[j].pages) = 2 /\ task[j].next = 3
        /\ Len(task[j].all_chunks) = 2 /\ Len(task[j].embeddings) = 2
        /\ crawler[j].pc = "returned"

\* C28: a created job whose background task has ended is completed or failed
\* (a task that has ended takes no further step, so a job it left pending or
\* running stays so forever).
C28_EndedTaskJobTerminal ==
    \A j \in Jobs :
        task[j].pc = "done" /\ jobs[j].status # "absent" =>
            jobs[j].status \in {"completed", "failed"}


\* the counters of a job document are within their ranges
ProgressInRange(doc) ==
    /\ 0 <= doc.pages_processed
    /\ doc.pages_processed <= doc.total_pages
    /\ doc.total_pages <= doc.max_pages
    /\ doc.progress[2] > 0
    /\ 0 <= doc.progress[1]
    /\ doc.progress[1] <= doc.progress[2]

\* C32: the progress callback is awaited once for every accepted page, right
\* after the page is appended, with pagesProcessed = len(results) and
\* totalPages = min(len(queue) + len(results), max_pages); and every job
\* document has 0 <= pages_processed <= total_pages <= max_pages and
\* 0 <= progress <= 1.
C32_ProgressPerAcceptedPage ==
    [][\A j \in Jobs :
          LET cr == crawler[j]
              nx == crawler'[j]
          IN  /\ (cr.pc = "fetch" /\ Len(nx.results) = Len(cr.results) + 1)
                    <=> (cr.pc # "callback" /\ nx.pc = "callback")
              /\ (cr.pc = "callback" /\ nx # cr) =>
                    /\ nx.pc \in {"loop", "raised"}
                    /\ nx.results = cr.results
                    /\ nx.pc = "loop" =>
                          /\ jobs'[j].pages_processed = Len(cr.results)
                          /\ jobs'[j].total_pages =
                                Min(Len(cr.queue) + Len(cr.results), cr.max_pages)
                          /\ jobs'[j].progress =
                                <<jobs'[j].pages_processed, jobs'[j].total_pages>>
              /\ (cr.pc # "callback" /\ jobs[j].status # "absent") =>
                    /\ jobs'[j].pages_processed = jobs[j].pages_processed
                    /\ jobs'[j].total_pages = jobs[j].total_pages
              /\ ProgressInRange(jobs'[j])]_vars

\* the callback has reported the first of two pages while the frontier held
\* more entries than the page budget had room for
C32_Witness ==
    \E j \in Jobs :
        /\ jobs[j].status = "running"
        /\ jobs[j].pages_processed = 1
        /\ jobs[j].total_pages = 2
        /\ jobs[j].max_pages = 2
        /\ crawler[j].pc = "loop"
        /\ Len(crawler[j].queue) >= 2

\* C35: add_embeddings appends in input order.  In the step that calls it
\* with embeddings and all_chunks, chunk i and the normalized row i are stored
\* at offset count_before + i (0-based), id_to_index maps the chunk's id to
\* that offset, and what earlier calls stored is unchanged at its offsets.
C35_AddAppendsInOrder ==
    [][\A j \in Jobs :
          (task[j].pc = "add" /\ task'[j].pc = "save") =>
              LET count_before == Len(vs.metadata)
                  chunks == task[j].all_chunks
                  rows == task[j].embeddings
              IN  /\ Len(vs'.metadata) = count_before + Len(chunks)
                  /\ Len(vs'.index) = Len(vs.index) + Len(rows)
                  /\ \A i \in 1..Len(chunks) :
                        /\ vs'.metadata[count_before + i] = chunks[i]
                        /\ vs'.index[count_before + i] = normalize_L2(rows[i])
                        /\ <<chunks[i].id, count_before + i - 1>> \in vs'.id_to_index
                  /\ \A i \in 1..count_before :
                        /\ vs'.metadata[i] = vs.metadata[i]
                        /\ vs'.index[i] = vs.index[i]]_vars

\* a second call has stored two chunks with different rows behind the rows of
\* an earlier call
C35_Witness ==
    \E j \in Jobs :
        /\ task[j].pc = "save"
        /\ Len(task[j].all_chunks) = 2
        /\ task[j].embeddings[1] # task[j].embeddings[2]
        /\ Len(vs.metadata) > 2
        /\ vs.index[1] # vs.index[Len(vs.index)]

=============================================================================
